---- MODULE Spec2Model ----
(***************************************************************************)
(* State-machine model of the two ledger contracts of the repository and   *)
(* of the backend service in front of them:                                *)
(*   contracts/FileRegistry.sol   (the FileLedger)                         *)
(*   contracts/PaymentEscrow.sol  (the EscrowLedger)                       *)
(*   backend services/payment.service.ts, services/ucan.service.ts,        *)
(*   services/storage.service.ts and routes/storage.routes.ts              *)
(* Every external function is one atomic action (one transaction of the    *)
(* chain).  A transaction that reverts leaves the state as it was; the     *)
(* operators ...Result give the outcome of a call: OK or the revert reason.*)
(*                                                                         *)
(* Amounts, sizes and rates are uint256 in the source.  TLC integers are   *)
(* 32 bits wide, so the model works with small numbers: UintMax stands for *)
(* 2^256 - 1 (checked arithmetic reverts above it, Solidity >= 0.8) and    *)
(* InitialPricePerByte stands for the 1e12 of FileRegistry.sol:44.         *)
(***************************************************************************)
EXTENDS Integers, Sequences, FiniteSets, TLC

VARIABLES
    \* ---- FileRegistry storage
    files,            \* mapping(uint256 => FileRecord), as the sequence of records 1..nextFileId-1
    cidToFileId,      \* mapping(string => uint256), 0 = absent
    userFiles,        \* mapping(address => uint256[])
    nextFileId,
    totalFiles,
    pricePerByte,
    registryPaused,   \* Pausable._paused of FileRegistry
    \* ---- PaymentEscrow storage
    escrows,          \* mapping(uint256 => EscrowRecord), as the sequence 1..nextEscrowId-1
    fileToEscrow,     \* mapping(uint256 => uint256), 0 = absent
    userEscrows,      \* mapping(address => uint256[])
    nextEscrowId,
    treasury,
    totalEscrowed,
    totalReleased,
    escrowPaused,     \* Pausable._paused of PaymentEscrow
    \* ---- environment
    balanceOf,        \* the USDFC token's balances
    now,              \* block.timestamp
    payouts,          \* per escrow: the PaymentReleased and PaymentRefunded events emitted
    \* ---- backend (the HTTP service in front of the ledgers)
    issued,           \* the capability tokens minted by POST /authorize so far
    response,         \* the last HTTP response, with the collaborator calls its handler made
    upload,           \* the run of StorageService.uploadFile in progress
    ucanSigner,       \* UcanService.signer: the key pair held, NoSigner for null
    generated,        \* the number of key pairs ed25519.generate() has produced
    inflight          \* the calls of UcanService in flight

regVars == <<files, cidToFileId, userFiles, nextFileId, totalFiles, pricePerByte, registryPaused>>
escVars == <<escrows, fileToEscrow, userEscrows, nextEscrowId, treasury, totalEscrowed,
             totalReleased, escrowPaused, payouts>>
ucanVars == <<ucanSigner, generated, inflight>>
backVars == <<issued, response, upload, ucanVars>>
vars == <<regVars, escVars, balanceOf, now, backVars>>

-----------------------------------------------------------------------------
(* Bounds of the model *)

Genesis == 1700000000             \* block.timestamp at deployment
MaxElapsed == 604800              \* the clock stops this many seconds after deployment
UintMax == 15                     \* stands for type(uint256).max
InitialFunds == 4                 \* USDFC each user holds at the start

Owner == "owner"                  \* deployer: owner of both contracts
EscrowAddress == "escrow"         \* address(this) of PaymentEscrow
Users == {"owner", "alice"}       \* externally owned accounts
Accounts == Users \cup {EscrowAddress}
CIDs == {"a", "b"}                \* non-empty content identifiers
CidInputs == CIDs \cup {""}
SizeInputs == {0, 1, 2}
HashInputs == {0, 1, 2}           \* bytes32 metadataHash: 0, 1, any other digest
RateInputs == {0, 1, 8}
FileIds == 1..Cardinality(CIDs)   \* ids a file can get
IdInputs == 0..Cardinality(CIDs)  \* 0: an id no file has
FileSize == 2                     \* the size of the files of Spec
MaxIssued == 2                    \* tokens minted in one run of SpecBackend
MaxServiceTime == 7199            \* seconds of service time in SpecBackend
MaxCalls == 3                     \* calls of UcanService in flight together
AmountInputs == {FileSize, FileSize + 1, FileSize * 2}

-----------------------------------------------------------------------------
(* Program constants *)

InitialPricePerByte == 2          \* FileRegistry.sol:44 (1e12, scaled)
RefundWindow == 604800            \* "7 days", PaymentEscrow.sol:188

Uploaded == 0
Paid == 1
Stored == 2
Retrieved == 3

OK == "ok"
EnforcedPause == "EnforcedPause"
Unauthorized == "OwnableUnauthorizedAccount"
Panic == "Panic(0x11)"
EmptyCid == "FileRegistry: Empty CID"
ZeroSize == "FileRegistry: Zero file size"
DuplicateCid == "FileRegistry: CID already exists"
RegNotFound == "FileRegistry: File not found"
InvalidStatus == "FileRegistry: Invalid status"
PaymentRequired == "FileRegistry: Payment required"
NotStoredYet == "FileRegistry: Not stored yet"

-----------------------------------------------------------------------------
(* FileRegistry *)

NoFile == [pieceCid |-> "", uploader |-> "", fileSize |-> 0, storagePrice |-> 0,
           uploadTime |-> 0, paidTime |-> 0, storedTime |-> 0, status |-> Uploaded,
           metadataHash |-> 0, exists |-> FALSE]

\* files[fileId]: a storage read of an unset key gives the zero record
File(fileId) == IF fileId \in DOMAIN files THEN files[fileId] ELSE NoFile

\* a price that forgets the size
calculateStoragePrice_ignoresSize(fileSize) == pricePerByte

\* checked multiplication of Solidity 0.8
calculateStoragePrice(fileSize) == fileSize * pricePerByte

\* registerFile without the duplicate check of line 94
registerFileResult_noDuplicateCheck(sender, pieceCid, fileSize, metadataHash) ==
    IF registryPaused THEN EnforcedPause
    ELSE IF pieceCid = "" THEN EmptyCid
    ELSE IF fileSize = 0 THEN ZeroSize
    ELSE IF fileSize * pricePerByte > UintMax THEN Panic
    ELSE OK

\* registerFile without the size check of line 93
registerFileResult_noSizeCheck(sender, pieceCid, fileSize, metadataHash) ==
    IF registryPaused THEN EnforcedPause
    ELSE IF pieceCid = "" THEN EmptyCid
    ELSE IF cidToFileId[pieceCid] # 0 THEN DuplicateCid
    ELSE IF fileSize * pricePerByte > UintMax THEN Panic
    ELSE OK

registerFileResult(sender, pieceCid, fileSize, metadataHash) ==
    IF registryPaused THEN EnforcedPause
    ELSE IF pieceCid = "" THEN EmptyCid
    ELSE IF fileSize = 0 THEN ZeroSize
    ELSE IF cidToFileId[pieceCid] # 0 THEN DuplicateCid
    ELSE IF calculateStoragePrice(fileSize) > UintMax THEN Panic
    ELSE OK

NewFile(sender, pieceCid, fileSize, metadataHash) ==
    [pieceCid |-> pieceCid, uploader |-> sender, fileSize |-> fileSize,
     storagePrice |-> calculateStoragePrice(fileSize), uploadTime |-> now,
     paidTime |-> 0, storedTime |-> 0, status |-> Uploaded,
     metadataHash |-> metadataHash, exists |-> TRUE]

\* registerFile without the totalFiles++ of line 111
registerFile_tx_noTotal(sender, pieceCid, fileSize, metadataHash) ==
    LET r == registerFileResult(sender, pieceCid, fileSize, metadataHash) IN
    /\ IF r = OK
       THEN /\ nextFileId' = nextFileId + 1
            /\ files' = Append(files, NewFile(sender, pieceCid, fileSize, metadataHash))
            /\ cidToFileId' = [cidToFileId EXCEPT ![pieceCid] = nextFileId]
            /\ userFiles' = [userFiles EXCEPT ![sender] = Append(@, nextFileId)]
            /\ UNCHANGED <<totalFiles, pricePerByte, registryPaused>>
       ELSE UNCHANGED regVars
    /\ UNCHANGED <<escVars, balanceOf, now>>

\* the transaction registerFile on the two ledgers
registerFile_tx(sender, pieceCid, fileSize, metadataHash) ==
    LET r == registerFileResult(sender, pieceCid, fileSize, metadataHash) IN
    /\ IF r = OK
       THEN /\ nextFileId' = nextFileId + 1
            /\ files' = Append(files, NewFile(sender, pieceCid, fileSize, metadataHash))
            /\ cidToFileId' = [cidToFileId EXCEPT ![pieceCid] = nextFileId]
            /\ userFiles' = [userFiles EXCEPT ![sender] = Append(@, nextFileId)]
            /\ totalFiles' = totalFiles + 1
            /\ UNCHANGED <<pricePerByte, registryPaused>>
       ELSE UNCHANGED regVars
    /\ UNCHANGED <<escVars, balanceOf, now>>

\* registerFile sent on its own: the backend state stays as it is
registerFile(sender, pieceCid, fileSize, metadataHash) ==
    registerFile_tx(sender, pieceCid, fileSize, metadataHash) /\ UNCHANGED backVars

\* linkPayment without the whenNotPaused modifier
linkPaymentResult_noPauseCheck(fileId) ==
    IF ~File(fileId).exists THEN RegNotFound
    ELSE IF File(fileId).status # Uploaded THEN InvalidStatus
    ELSE OK

\* the state change of linkPayment, shared by the direct call and the call from depositForFile
linkPaymentResult(fileId) ==
    IF registryPaused THEN EnforcedPause
    ELSE IF ~File(fileId).exists THEN RegNotFound
    ELSE IF File(fileId).status # Uploaded THEN InvalidStatus
    ELSE OK

linkPaymentEffect(fileId) ==
    [files EXCEPT ![fileId].status = Paid, ![fileId].paidTime = now]

\* linkPayment is `external whenNotPaused': any account may send it
linkPayment(sender, fileId, payer, amount) ==
    LET r == linkPaymentResult(fileId) IN
    /\ files' = IF r = OK THEN linkPaymentEffect(fileId) ELSE files
    /\ UNCHANGED <<cidToFileId, userFiles, nextFileId, totalFiles, pricePerByte, registryPaused>>
    /\ UNCHANGED <<escVars, balanceOf, now, backVars>>

\* confirmStorage without the status check of line 142
confirmStorageResult_anyStatus(sender, fileId) ==
    IF sender # Owner THEN Unauthorized
    ELSE IF registryPaused THEN EnforcedPause
    ELSE IF ~File(fileId).exists THEN RegNotFound
    ELSE OK

confirmStorageResult(sender, fileId) ==
    IF sender # Owner THEN Unauthorized
    ELSE IF registryPaused THEN EnforcedPause
    ELSE IF ~File(fileId).exists THEN RegNotFound
    ELSE IF File(fileId).status # Paid THEN PaymentRequired
    ELSE OK

\* the transaction confirmStorage on the two ledgers
confirmStorage_tx(sender, fileId) ==
    LET r == confirmStorageResult(sender, fileId) IN
    /\ files' = IF r = OK
                THEN [files EXCEPT ![fileId].status = Stored, ![fileId].storedTime = now]
                ELSE files
    /\ UNCHANGED <<cidToFileId, userFiles, nextFileId, totalFiles, pricePerByte, registryPaused>>
    /\ UNCHANGED <<escVars, balanceOf, now>>

\* confirmStorage sent on its own: the backend state stays as it is
confirmStorage(sender, fileId) ==
    confirmStorage_tx(sender, fileId) /\ UNCHANGED backVars

\* markRetrieved without the status check of line 156
markRetrievedResult_anyStatus(fileId) ==
    IF registryPaused THEN EnforcedPause
    ELSE IF ~File(fileId).exists THEN RegNotFound
    ELSE OK

markRetrievedResult(fileId) ==
    IF registryPaused THEN EnforcedPause
    ELSE IF ~File(fileId).exists THEN RegNotFound
    ELSE IF File(fileId).status # Stored THEN NotStoredYet
    ELSE OK

markRetrieved(sender, fileId) ==
    LET r == markRetrievedResult(fileId) IN
    /\ files' = IF r = OK THEN [files EXCEPT ![fileId].status = Retrieved] ELSE files
    /\ UNCHANGED <<cidToFileId, userFiles, nextFileId, totalFiles, pricePerByte, registryPaused>>
    /\ UNCHANGED <<escVars, balanceOf, now, backVars>>

\* getFileStatus of an existing file: (isPaid, isStored)
getFileStatus(fileId) ==
    LET status == File(fileId).status IN
    [isPaid |-> status \in {Paid, Stored, Retrieved},
     isStored |-> status \in {Stored, Retrieved}]

\* the outcome of a call of a view function: the value returned, or the revert reason
View(v) == [reason |-> OK, value |-> v]
Revert(reason) == [reason |-> reason, value |-> 0]

\* getFile without the require of line 178
getFileView_noExistsCheck(fileId) == View(File(fileId))

\* getFile(fileId)
getFileView(fileId) ==
    IF ~File(fileId).exists THEN Revert(RegNotFound) ELSE View(File(fileId))

\* getFileStatus(fileId), with its require of line 207
getFileStatusView(fileId) ==
    IF ~File(fileId).exists THEN Revert(RegNotFound) ELSE View(getFileStatus(fileId))

\* getFileIdByCid(pieceCid): the mapping's value, 0 for a key that was never set
getFileIdByCidView(pieceCid) ==
    View(IF pieceCid \in DOMAIN cidToFileId THEN cidToFileId[pieceCid] ELSE 0)

\* getUserFiles(user): the array, empty for a key that was never set
getUserFilesView(user) ==
    View(IF user \in DOMAIN userFiles THEN userFiles[user] ELSE <<>>)

updateStoragePriceResult(sender, newPricePerByte) ==
    IF sender # Owner THEN Unauthorized ELSE OK

updateStoragePrice(sender, newPricePerByte) ==
    LET r == updateStoragePriceResult(sender, newPricePerByte) IN
    /\ pricePerByte' = IF r = OK THEN newPricePerByte ELSE pricePerByte
    /\ UNCHANGED <<files, cidToFileId, userFiles, nextFileId, totalFiles, registryPaused>>
    /\ UNCHANGED <<escVars, balanceOf, now, backVars>>

\* pause() / unpause() of FileRegistry (Pausable: pause needs not paused, unpause needs paused)
FileRegistry_pause(sender) ==
    LET r == IF sender # Owner THEN Unauthorized
             ELSE IF registryPaused THEN EnforcedPause ELSE OK IN
    /\ registryPaused' = IF r = OK THEN TRUE ELSE registryPaused
    /\ UNCHANGED <<files, cidToFileId, userFiles, nextFileId, totalFiles, pricePerByte>>
    /\ UNCHANGED <<escVars, balanceOf, now, backVars>>

FileRegistry_unpause(sender) ==
    LET r == IF sender # Owner THEN Unauthorized
             ELSE IF ~registryPaused THEN "ExpectedPause" ELSE OK IN
    /\ registryPaused' = IF r = OK THEN FALSE ELSE registryPaused
    /\ UNCHANGED <<files, cidToFileId, userFiles, nextFileId, totalFiles, pricePerByte>>
    /\ UNCHANGED <<escVars, balanceOf, now, backVars>>

-----------------------------------------------------------------------------
(* The call fileRegistry.getFile(fileId) made by PaymentEscrow *)

\* FileRegistry.getFile returns `FileRecord memory'.  FileRecord has a string member, so
\* it is a dynamic type and the return data is abi.encode of a one-element tuple holding
\* it: word 0 is the offset (0x20) of the struct, then the struct's head follows - the
\* offset (0x140) of pieceCid and the nine static members - and last the string's tail.
\* The sequence below is the return data, word by word, up to the tail.
getFileReturnData(file) ==
    <<32, 320, file.uploader, file.fileSize, file.storagePrice, file.uploadTime,
      file.paidTime, file.storedTime, file.status, file.metadataHash,
      IF file.exists THEN 1 ELSE 0>>

\* IFileRegistry.getFile declares ten flat return values (string, address, uint256 x5,
\* uint8, bytes32, bool): the caller's decoder reads value k from word k of the return
\* data and reverts when a uint8 is above 255 or a bool is neither 0 nor 1.  (Value 0,
\* the string, is read at offset word 0 = 0x20 with length word 1 = 0x140, which lies
\* inside the return data of any record with a non-empty pieceCid.)
IFileRegistry_getFile(data) ==
    [valid |-> data[8] <= 255 /\ data[10] \in {0, 1},
     storagePrice |-> data[4],
     exists |-> data[10] = 1]

-----------------------------------------------------------------------------
(* PaymentEscrow *)

NotFound == "PaymentEscrow: File not found"
IncorrectAmount == "PaymentEscrow: Incorrect payment amount"
AlreadyPaid == "PaymentEscrow: File already paid"
NoPayment == "PaymentEscrow: No payment for file"
AlreadyReleased == "PaymentEscrow: Already released"
AlreadyRefunded == "PaymentEscrow: Already refunded"
FileNotStored == "PaymentEscrow: File not stored yet"
TooEarly == "PaymentEscrow: Too early for refund"
AlreadyStored == "PaymentEscrow: File already stored"
InvalidEscrow == "PaymentEscrow: Invalid escrow"
InvalidTreasury == "PaymentEscrow: Invalid treasury address"
InsufficientBalance == "PaymentEscrow: Insufficient balance"
DecodeRevert == "revert"                       \* a revert without reason (ABI decoding)
TransferFailed == "ERC20InsufficientBalance"   \* the token's transfer reverted
ZeroAddress == "0x0"

NoEscrow == [fileId |-> 0, payer |-> ZeroAddress, provider |-> ZeroAddress, amount |-> 0,
             lockTime |-> 0, released |-> FALSE, refunded |-> FALSE]

\* escrows[escrowId]: a storage read of an unset key gives the zero record
Escrow(escrowId) == IF escrowId \in DOMAIN escrows THEN escrows[escrowId] ELSE NoEscrow

\* fileToEscrow[fileId] for any uint256 key
EscrowIdOf(fileId) == IF fileId \in DOMAIN fileToEscrow THEN fileToEscrow[fileId] ELSE 0

\* IERC20 transfer of `amount' from `from' to `to'
Transfer(bal, from, to, amount) ==
    IF from = to THEN bal
    ELSE [bal EXCEPT ![from] = @ - amount, ![to] = @ + amount]

\* depositForFile without the two "File already paid" checks of lines 121-125
depositForFileResult_noPaidCheck(sender, fileId, amount) ==
    IF escrowPaused THEN EnforcedPause
    ELSE IF ~File(fileId).exists THEN RegNotFound
    ELSE LET ret == IFileRegistry_getFile(getFileReturnData(File(fileId))) IN
         IF ~ret.valid THEN DecodeRevert
         ELSE IF ~ret.exists THEN NotFound
         ELSE IF amount # ret.storagePrice THEN IncorrectAmount
         ELSE IF balanceOf[sender] < amount THEN TransferFailed
         ELSE IF totalEscrowed + amount > UintMax THEN Panic
         ELSE linkPaymentResult(fileId)

\* depositForFile that keeps its own effects when the call to linkPayment (line 144) fails
depositForFileResult_ignoresLinkFailure(sender, fileId, amount) ==
    IF escrowPaused THEN EnforcedPause
    ELSE IF ~File(fileId).exists THEN RegNotFound
    ELSE LET ret == IFileRegistry_getFile(getFileReturnData(File(fileId))) IN
         IF ~ret.valid THEN DecodeRevert
         ELSE IF ~ret.exists THEN NotFound
         ELSE IF amount # ret.storagePrice THEN IncorrectAmount
         ELSE IF EscrowIdOf(fileId) # 0 THEN AlreadyPaid
         ELSE IF getFileStatus(fileId).isPaid THEN AlreadyPaid
         ELSE IF balanceOf[sender] < amount THEN TransferFailed
         ELSE IF totalEscrowed + amount > UintMax THEN Panic
         ELSE OK

depositForFileResult(sender, fileId, amount) ==
    IF escrowPaused THEN EnforcedPause
    ELSE IF ~File(fileId).exists THEN RegNotFound        \* getFile itself reverts
    ELSE LET ret == IFileRegistry_getFile(getFileReturnData(File(fileId))) IN
         IF ~ret.valid THEN DecodeRevert
         ELSE IF ~ret.exists THEN NotFound
         ELSE IF amount # ret.storagePrice THEN IncorrectAmount
         ELSE IF EscrowIdOf(fileId) # 0 THEN AlreadyPaid
         ELSE IF getFileStatus(fileId).isPaid THEN AlreadyPaid
         ELSE IF balanceOf[sender] < amount THEN TransferFailed
         ELSE IF totalEscrowed + amount > UintMax THEN Panic
         ELSE linkPaymentResult(fileId)

NewEscrow(sender, fileId, amount) ==
    [fileId |-> fileId, payer |-> sender, provider |-> treasury, amount |-> amount,
     lockTime |-> now, released |-> FALSE, refunded |-> FALSE]

\* the transaction depositForFile on the two ledgers
depositForFile_tx(sender, fileId, amount) ==
    LET r == depositForFileResult(sender, fileId, amount) IN
    /\ IF r = OK
       THEN /\ balanceOf' = Transfer(balanceOf, sender, EscrowAddress, amount)
            /\ nextEscrowId' = nextEscrowId + 1
            /\ escrows' = Append(escrows, NewEscrow(sender, fileId, amount))
            /\ payouts' = Append(payouts, [released |-> 0, refunded |-> 0])
            /\ fileToEscrow' = [fileToEscrow EXCEPT ![fileId] = nextEscrowId]
            /\ userEscrows' = [userEscrows EXCEPT ![sender] = Append(@, nextEscrowId)]
            /\ totalEscrowed' = totalEscrowed + amount
            /\ files' = linkPaymentEffect(fileId)
            /\ UNCHANGED <<treasury, totalReleased, escrowPaused>>
       ELSE UNCHANGED <<escVars, balanceOf, files>>
    /\ UNCHANGED <<cidToFileId, userFiles, nextFileId, totalFiles, pricePerByte, registryPaused, now>>

\* depositForFile sent on its own: the backend state stays as it is
depositForFile(sender, fileId, amount) ==
    depositForFile_tx(sender, fileId, amount) /\ UNCHANGED backVars

\* releasePayment without the storage check of lines 162-163
releasePaymentResult_noStoredCheck(sender, fileId) ==
    LET escrow == Escrow(EscrowIdOf(fileId)) IN
    IF sender # Owner THEN Unauthorized
    ELSE IF escrowPaused THEN EnforcedPause
    ELSE IF EscrowIdOf(fileId) = 0 THEN NoPayment
    ELSE IF escrow.released THEN AlreadyReleased
    ELSE IF escrow.refunded THEN AlreadyRefunded
    ELSE IF balanceOf[EscrowAddress] < escrow.amount THEN TransferFailed
    ELSE OK

\* releasePayment without the onlyOwner modifier
releasePaymentResult_noOwnerCheck(sender, fileId) ==
    LET escrow == Escrow(EscrowIdOf(fileId)) IN
    IF escrowPaused THEN EnforcedPause
    ELSE IF EscrowIdOf(fileId) = 0 THEN NoPayment
    ELSE IF escrow.released THEN AlreadyReleased
    ELSE IF escrow.refunded THEN AlreadyRefunded
    ELSE IF ~File(fileId).exists THEN RegNotFound
    ELSE IF ~getFileStatus(fileId).isStored THEN FileNotStored
    ELSE IF totalReleased + escrow.amount > UintMax THEN Panic
    ELSE IF balanceOf[EscrowAddress] < escrow.amount THEN TransferFailed
    ELSE OK

\* releasePayment without the released check of line 158
releasePaymentResult_noReleasedCheck(sender, fileId) ==
    LET escrow == Escrow(EscrowIdOf(fileId)) IN
    IF sender # Owner THEN Unauthorized
    ELSE IF escrowPaused THEN EnforcedPause
    ELSE IF EscrowIdOf(fileId) = 0 THEN NoPayment
    ELSE IF escrow.refunded THEN AlreadyRefunded
    ELSE IF ~File(fileId).exists THEN RegNotFound
    ELSE IF ~getFileStatus(fileId).isStored THEN FileNotStored
    ELSE IF totalReleased + escrow.amount > UintMax THEN Panic
    ELSE IF balanceOf[EscrowAddress] < escrow.amount THEN TransferFailed
    ELSE OK

\* releasePayment without the refunded check of line 159
releasePaymentResult_noRefundedCheck(sender, fileId) ==
    LET escrow == Escrow(EscrowIdOf(fileId)) IN
    IF sender # Owner THEN Unauthorized
    ELSE IF escrowPaused THEN EnforcedPause
    ELSE IF EscrowIdOf(fileId) = 0 THEN NoPayment
    ELSE IF escrow.released THEN AlreadyReleased
    ELSE IF ~File(fileId).exists THEN RegNotFound
    ELSE IF ~getFileStatus(fileId).isStored THEN FileNotStored
    ELSE IF totalReleased + escrow.amount > UintMax THEN Panic
    ELSE IF balanceOf[EscrowAddress] < escrow.amount THEN TransferFailed
    ELSE OK

releasePaymentResult(sender, fileId) ==
    LET escrow == Escrow(EscrowIdOf(fileId)) IN
    IF sender # Owner THEN Unauthorized
    ELSE IF escrowPaused THEN EnforcedPause
    ELSE IF EscrowIdOf(fileId) = 0 THEN NoPayment
    ELSE IF escrow.released THEN AlreadyReleased
    ELSE IF escrow.refunded THEN AlreadyRefunded
    ELSE IF ~File(fileId).exists THEN RegNotFound
    ELSE IF ~getFileStatus(fileId).isStored THEN FileNotStored
    ELSE IF totalReleased + escrow.amount > UintMax THEN Panic
    ELSE IF balanceOf[EscrowAddress] < escrow.amount THEN TransferFailed
    ELSE OK

\* releasePayment without the totalReleased += escrow.amount of line 166
releasePayment_noTotalReleased(sender, fileId) ==
    LET r == releasePaymentResult(sender, fileId)
        escrowId == EscrowIdOf(fileId)
        escrow == Escrow(escrowId) IN
    /\ IF r = OK
       THEN /\ escrows' = [escrows EXCEPT ![escrowId].released = TRUE]
            /\ balanceOf' = Transfer(balanceOf, EscrowAddress, escrow.provider, escrow.amount)
            /\ payouts' = [payouts EXCEPT ![escrowId].released = @ + 1]
       ELSE UNCHANGED <<escrows, balanceOf, payouts>>
    /\ UNCHANGED <<fileToEscrow, userEscrows, nextEscrowId, treasury, totalEscrowed,
                   totalReleased, escrowPaused>>
    /\ UNCHANGED <<regVars, now, backVars>>

\* releasePayment paying the treasury of the moment instead of escrow.provider (line 169)
releasePayment_toTreasury(sender, fileId) ==
    LET r == releasePaymentResult(sender, fileId)
        escrowId == EscrowIdOf(fileId)
        escrow == Escrow(escrowId) IN
    /\ IF r = OK
       THEN /\ escrows' = [escrows EXCEPT ![escrowId].released = TRUE]
            /\ totalReleased' = totalReleased + escrow.amount
            /\ balanceOf' = Transfer(balanceOf, EscrowAddress, treasury, escrow.amount)
            /\ payouts' = [payouts EXCEPT ![escrowId].released = @ + 1]
       ELSE UNCHANGED <<escrows, totalReleased, balanceOf, payouts>>
    /\ UNCHANGED <<fileToEscrow, userEscrows, nextEscrowId, treasury, totalEscrowed, escrowPaused>>
    /\ UNCHANGED <<regVars, now, backVars>>

releasePayment(sender, fileId) ==
    LET r == releasePaymentResult(sender, fileId)
        escrowId == EscrowIdOf(fileId)
        escrow == Escrow(escrowId) IN
    /\ IF r = OK
       THEN /\ escrows' = [escrows EXCEPT ![escrowId].released = TRUE]
            /\ totalReleased' = totalReleased + escrow.amount
            /\ balanceOf' = Transfer(balanceOf, EscrowAddress, escrow.provider, escrow.amount)
            /\ payouts' = [payouts EXCEPT ![escrowId].released = @ + 1]
       ELSE UNCHANGED <<escrows, totalReleased, balanceOf, payouts>>
    /\ UNCHANGED <<fileToEscrow, userEscrows, nextEscrowId, treasury, totalEscrowed, escrowPaused>>
    /\ UNCHANGED <<regVars, now, backVars>>

\* refundPayment with `>' for the `>=' of line 188
refundPaymentResult_strictlyLater(sender, fileId) ==
    LET escrow == Escrow(EscrowIdOf(fileId)) IN
    IF sender # Owner THEN Unauthorized
    ELSE IF escrowPaused THEN EnforcedPause
    ELSE IF EscrowIdOf(fileId) = 0 THEN NoPayment
    ELSE IF escrow.released THEN AlreadyReleased
    ELSE IF escrow.refunded THEN AlreadyRefunded
    ELSE IF ~(now > escrow.lockTime + RefundWindow) THEN TooEarly
    ELSE IF ~File(fileId).exists THEN RegNotFound
    ELSE IF getFileStatus(fileId).isStored THEN AlreadyStored
    ELSE IF balanceOf[EscrowAddress] < escrow.amount THEN TransferFailed
    ELSE OK

\* refundPayment with the time check of lines 187-190 ahead of the finalization checks
refundPaymentResult_timeFirst(sender, fileId) ==
    LET escrow == Escrow(EscrowIdOf(fileId)) IN
    IF sender # Owner THEN Unauthorized
    ELSE IF escrowPaused THEN EnforcedPause
    ELSE IF EscrowIdOf(fileId) = 0 THEN NoPayment
    ELSE IF ~(now >= escrow.lockTime + RefundWindow) THEN TooEarly
    ELSE IF escrow.released THEN AlreadyReleased
    ELSE IF escrow.refunded THEN AlreadyRefunded
    ELSE IF ~File(fileId).exists THEN RegNotFound
    ELSE IF getFileStatus(fileId).isStored THEN AlreadyStored
    ELSE IF balanceOf[EscrowAddress] < escrow.amount THEN TransferFailed
    ELSE OK

refundPaymentResult(sender, fileId) ==
    LET escrow == Escrow(EscrowIdOf(fileId)) IN
    IF sender # Owner THEN Unauthorized
    ELSE IF escrowPaused THEN EnforcedPause
    ELSE IF EscrowIdOf(fileId) = 0 THEN NoPayment
    ELSE IF escrow.released THEN AlreadyReleased
    ELSE IF escrow.refunded THEN AlreadyRefunded
    ELSE IF ~(now >= escrow.lockTime + RefundWindow) THEN TooEarly
    ELSE IF ~File(fileId).exists THEN RegNotFound
    ELSE IF getFileStatus(fileId).isStored THEN AlreadyStored
    ELSE IF balanceOf[EscrowAddress] < escrow.amount THEN TransferFailed
    ELSE OK

\* refundPayment without the safeTransfer of line 198
refundPayment_keepsFunds(sender, fileId) ==
    LET r == refundPaymentResult(sender, fileId)
        escrowId == EscrowIdOf(fileId) IN
    /\ IF r = OK
       THEN /\ escrows' = [escrows EXCEPT ![escrowId].refunded = TRUE]
            /\ payouts' = [payouts EXCEPT ![escrowId].refunded = @ + 1]
       ELSE UNCHANGED <<escrows, payouts>>
    /\ UNCHANGED <<fileToEscrow, userEscrows, nextEscrowId, treasury, totalEscrowed,
                   totalReleased, escrowPaused>>
    /\ UNCHANGED <<regVars, balanceOf, now, backVars>>

refundPayment(sender, fileId) ==
    LET r == refundPaymentResult(sender, fileId)
        escrowId == EscrowIdOf(fileId)
        escrow == Escrow(escrowId) IN
    /\ IF r = OK
       THEN /\ escrows' = [escrows EXCEPT ![escrowId].refunded = TRUE]
            /\ balanceOf' = Transfer(balanceOf, EscrowAddress, escrow.payer, escrow.amount)
            /\ payouts' = [payouts EXCEPT ![escrowId].refunded = @ + 1]
       ELSE UNCHANGED <<escrows, balanceOf, payouts>>
    /\ UNCHANGED <<fileToEscrow, userEscrows, nextEscrowId, treasury, totalEscrowed,
                   totalReleased, escrowPaused>>
    /\ UNCHANGED <<regVars, now, backVars>>

\* emergencyRefund without the released check of line 210
emergencyRefundResult_noReleasedCheck(sender, escrowId) ==
    LET escrow == Escrow(escrowId) IN
    IF sender # Owner THEN Unauthorized
    ELSE IF escrowPaused THEN EnforcedPause
    ELSE IF ~(escrow.amount > 0) THEN InvalidEscrow
    ELSE IF escrow.refunded THEN AlreadyRefunded
    ELSE IF balanceOf[EscrowAddress] < escrow.amount THEN TransferFailed
    ELSE OK

\* emergencyRefund with the timeout check of refundPayment (lines 187-190)
emergencyRefundResult_afterWindow(sender, escrowId) ==
    LET escrow == Escrow(escrowId) IN
    IF sender # Owner THEN Unauthorized
    ELSE IF escrowPaused THEN EnforcedPause
    ELSE IF ~(escrow.amount > 0) THEN InvalidEscrow
    ELSE IF escrow.released THEN AlreadyReleased
    ELSE IF escrow.refunded THEN AlreadyRefunded
    ELSE IF ~(now >= escrow.lockTime + RefundWindow) THEN TooEarly
    ELSE IF balanceOf[EscrowAddress] < escrow.amount THEN TransferFailed
    ELSE OK

emergencyRefundResult(sender, escrowId) ==
    LET escrow == Escrow(escrowId) IN
    IF sender # Owner THEN Unauthorized
    ELSE IF escrowPaused THEN EnforcedPause
    ELSE IF ~(escrow.amount > 0) THEN InvalidEscrow
    ELSE IF escrow.released THEN AlreadyReleased
    ELSE IF escrow.refunded THEN AlreadyRefunded
    ELSE IF balanceOf[EscrowAddress] < escrow.amount THEN TransferFailed
    ELSE OK

emergencyRefund(sender, escrowId) ==
    LET r == emergencyRefundResult(sender, escrowId)
        escrow == Escrow(escrowId) IN
    /\ IF r = OK
       THEN /\ escrows' = [escrows EXCEPT ![escrowId].refunded = TRUE]
            /\ balanceOf' = Transfer(balanceOf, EscrowAddress, escrow.payer, escrow.amount)
            /\ payouts' = [payouts EXCEPT ![escrowId].refunded = @ + 1]
       ELSE UNCHANGED <<escrows, balanceOf, payouts>>
    /\ UNCHANGED <<fileToEscrow, userEscrows, nextEscrowId, treasury, totalEscrowed,
                   totalReleased, escrowPaused>>
    /\ UNCHANGED <<regVars, now, backVars>>

\* getStats(): the subtraction is checked arithmetic
getStats ==
    IF totalEscrowed - totalReleased < 0 THEN Revert(Panic)
    ELSE View([totalEscrowedAmount |-> totalEscrowed,
               totalReleasedAmount |-> totalReleased,
               totalPendingAmount |-> totalEscrowed - totalReleased,
               nextId |-> nextEscrowId])

updateTreasury(sender, newTreasury) ==
    LET r == IF sender # Owner THEN Unauthorized
             ELSE IF newTreasury = ZeroAddress THEN InvalidTreasury ELSE OK IN
    /\ treasury' = IF r = OK THEN newTreasury ELSE treasury
    /\ UNCHANGED <<escrows, fileToEscrow, userEscrows, nextEscrowId, totalEscrowed,
                   totalReleased, escrowPaused, payouts>>
    /\ UNCHANGED <<regVars, balanceOf, now, backVars>>

emergencyWithdraw(sender, amount) ==
    LET r == IF sender # Owner THEN Unauthorized
             ELSE IF ~(amount <= balanceOf[EscrowAddress]) THEN InsufficientBalance ELSE OK IN
    /\ balanceOf' = IF r = OK THEN Transfer(balanceOf, EscrowAddress, Owner, amount)
                    ELSE balanceOf
    /\ UNCHANGED <<regVars, escVars, now, backVars>>

PaymentEscrow_pause(sender) ==
    LET r == IF sender # Owner THEN Unauthorized
             ELSE IF escrowPaused THEN EnforcedPause ELSE OK IN
    /\ escrowPaused' = IF r = OK THEN TRUE ELSE escrowPaused
    /\ UNCHANGED <<escrows, fileToEscrow, userEscrows, nextEscrowId, treasury, totalEscrowed,
                   totalReleased, payouts>>
    /\ UNCHANGED <<regVars, balanceOf, now, backVars>>

PaymentEscrow_unpause(sender) ==
    LET r == IF sender # Owner THEN Unauthorized
             ELSE IF ~escrowPaused THEN "ExpectedPause" ELSE OK IN
    /\ escrowPaused' = IF r = OK THEN FALSE ELSE escrowPaused
    /\ UNCHANGED <<escrows, fileToEscrow, userEscrows, nextEscrowId, treasury, totalEscrowed,
                   totalReleased, payouts>>
    /\ UNCHANGED <<regVars, balanceOf, now, backVars>>

-----------------------------------------------------------------------------
(* Backend: services/payment.service.ts (PaymentVerifier) *)

\* Text that the backend compares character by character is a sequence of characters.
UpperCase == <<"A", "B", "C", "D", "E", "F", "X">>
LowerCase == <<"a", "b", "c", "d", "e", "f", "x">>

\* String.prototype.toLowerCase
toLowerCase(str) ==
    [i \in DOMAIN str |->
        IF \E k \in DOMAIN UpperCase : UpperCase[k] = str[i]
        THEN LowerCase[CHOOSE k \in DOMAIN UpperCase : UpperCase[k] = str[i]]
        ELSE str[i]]

\* an address as ethers decodes it from return data: the mixed-case checksum form
AddressString(account) ==
    CASE account = "alice" -> <<"0", "x", "A", "b">>
      [] account = "owner" -> <<"0", "x", "c", "D">>
      [] OTHER             -> <<"0", "x", "E", "f">>

\* the userAddress values a request may carry: the payer's address in checksum, lower
\* and upper case, the payer's address without its prefix, and another account's address
PrincipalInputs ==
    {AddressString("alice"), <<"0", "x", "a", "b">>, <<"0", "X", "A", "B">>,
     <<"A", "b">>, AddressString("owner")}

\* the content identifiers a request may carry: the registered ones, one that differs
\* from a registered one in case only, and one that a registered one is a prefix of
RequestCids == CIDs \cup {"A", "ab"}

\* which ledger query of a request fails (node unreachable, timeout): none, the first, the second
FaultInputs == {"none", "registry", "escrow"}

getFileIdByCid(pieceCid) ==
    IF pieceCid \in DOMAIN cidToFileId THEN cidToFileId[pieceCid] ELSE 0

getEscrowByFile(fileId) ==
    LET escrowId == fileToEscrow[fileId] IN
    [escrowId |-> escrowId, escrow |-> IF escrowId # 0 THEN escrows[escrowId] ELSE NoEscrow]

\* what a call returns: a value, or an exception thrown to the caller
Returned(v) == [threw |-> FALSE, value |-> v]
Thrown == [threw |-> TRUE, value |-> FALSE]

\* verifyPayment comparing the payer with the principal as they are (line 72 without
\* toLowerCase)
verifyPaymentTry_caseSensitive(pieceCid, userAddress, fault) ==
    IF fault = "registry" THEN Thrown
    ELSE LET fileId == getFileIdByCid(pieceCid) IN
         IF fileId = 0 THEN Returned(FALSE)
         ELSE IF fault = "escrow" THEN Thrown
         ELSE LET r == getEscrowByFile(fileId) IN
              IF r.escrowId = 0 THEN Returned(FALSE)
              ELSE IF r.escrow.refunded THEN Returned(FALSE)
              ELSE IF r.escrow.amount <= 0 THEN Returned(FALSE)
              ELSE IF AddressString(r.escrow.payer) # userAddress THEN Returned(FALSE)
              ELSE Returned(TRUE)

\* verifyPayment without the refunded check of lines 61-64
verifyPaymentTry_ignoresRefund(pieceCid, userAddress, fault) ==
    IF fault = "registry" THEN Thrown
    ELSE LET fileId == getFileIdByCid(pieceCid) IN
         IF fileId = 0 THEN Returned(FALSE)
         ELSE IF fault = "escrow" THEN Thrown
         ELSE LET r == getEscrowByFile(fileId) IN
              IF r.escrowId = 0 THEN Returned(FALSE)
              ELSE IF r.escrow.amount <= 0 THEN Returned(FALSE)
              ELSE IF toLowerCase(AddressString(r.escrow.payer)) # toLowerCase(userAddress)
                   THEN Returned(FALSE)
              ELSE Returned(TRUE)

\* the body of the try block of verifyPayment
verifyPaymentTry(pieceCid, userAddress, fault) ==
    IF fault = "registry" THEN Thrown
    ELSE LET fileId == getFileIdByCid(pieceCid) IN
         IF fileId = 0 THEN Returned(FALSE)
         ELSE IF fault = "escrow" THEN Thrown
         ELSE LET r == getEscrowByFile(fileId) IN
              IF r.escrowId = 0 THEN Returned(FALSE)
              ELSE IF r.escrow.refunded THEN Returned(FALSE)
              ELSE IF r.escrow.amount <= 0 THEN Returned(FALSE)
              ELSE IF toLowerCase(AddressString(r.escrow.payer)) # toLowerCase(userAddress)
                   THEN Returned(FALSE)
              ELSE Returned(TRUE)

\* verifyPayment without its catch block (lines 77-80)
verifyPayment_noCatch(pieceCid, userAddress, fault) ==
    verifyPaymentTry(pieceCid, userAddress, fault)

\* try { ... } catch (error) { return false }
verifyPayment(pieceCid, userAddress, fault) ==
    LET r == verifyPaymentTry(pieceCid, userAddress, fault) IN
    IF r.threw THEN Returned(FALSE) ELSE r

-----------------------------------------------------------------------------
(* Backend: services/ucan.service.ts (CapabilityIssuer and CapabilityVerifier) *)

TokenLifetime == 3600

\* the key pair generated by init(), and a key pair held by somebody else
ServiceKey == "service"
OtherKey == "other"

RetrieveAction == "storage/retrieve"

\* the characters of a content identifier
Chars(pieceCid) ==
    CASE pieceCid = "a"  -> <<"a">>
      [] pieceCid = "b"  -> <<"b">>
      [] pieceCid = "A"  -> <<"A">>
      [] pieceCid = "ab" -> <<"a", "b">>
      [] OTHER           -> <<>>

\* the template literal `storage:${pieceCid}`
ResourceOf(pieceCid) == <<"storage:">> \o Chars(pieceCid)

\* a capability token in its encoded form: the claims and the key that signed them;
\* a string that is not a token has wellFormed = FALSE
Token(signer, audience, capabilities, notBefore, expiration) ==
    [wellFormed |-> TRUE, signature |-> signer, issuer |-> signer, audience |-> audience,
     capabilities |-> capabilities, notBefore |-> notBefore, expiration |-> expiration]

Malformed == [Token(OtherKey, <<>>, <<>>, 0, 0) EXCEPT !.wellFormed = FALSE]

\* UCAN.issue + UCAN.format of issueRetrievalToken; Verifier.parse(userDid) throws for
\* an identifier it cannot parse (parseFault)
issueRetrievalToken(userDid, pieceCid, parseFault) ==
    IF parseFault THEN Thrown
    ELSE Returned(Token(ServiceKey, userDid,
                        <<[with |-> ResourceOf(pieceCid), can |-> RetrieveAction]>>,
                        0, now + TokenLifetime))

\* UCAN.parse decodes the token; it checks neither the signature nor the time bounds
UCAN_parse(encodedToken) ==
    IF encodedToken.wellFormed THEN Returned(encodedToken) ELSE Thrown

\* verifyRetrievalAccess accepting a capability whose resource starts with the requested one
hasCapability_prefixMatch(token, pieceCid) ==
    \E i \in DOMAIN token.capabilities :
        LET with == token.capabilities[i].with
            want == ResourceOf(pieceCid) IN
        /\ Len(with) >= Len(want)
        /\ SubSeq(with, 1, Len(want)) = want
        /\ token.capabilities[i].can = RetrieveAction

hasCapability(token, pieceCid) ==
    \E i \in DOMAIN token.capabilities :
        /\ token.capabilities[i].with = ResourceOf(pieceCid)
        /\ token.capabilities[i].can = RetrieveAction

\* the body of the try block of verifyRetrievalAccess: init() when there is no signer
\* (initFault: its ed25519.generate() is rejected), UCAN.parse, capabilities.some
verifyRetrievalAccessTry(encodedToken, pieceCid, initFault) ==
    IF initFault THEN Thrown
    ELSE LET parsed == UCAN_parse(encodedToken) IN
         IF parsed.threw THEN Thrown
         ELSE Returned(hasCapability(parsed.value, pieceCid))

\* verifyRetrievalAccess without its catch block (lines 71-74)
verifyRetrievalAccess_noCatch(encodedToken, pieceCid, initFault) ==
    verifyRetrievalAccessTry(encodedToken, pieceCid, initFault)

\* what a call of verifyRetrievalAccess gives its caller:
\* try { ... } catch (error) { return false }
verifyRetrievalAccessCatch(encodedToken, pieceCid, initFault) ==
    LET r == verifyRetrievalAccessTry(encodedToken, pieceCid, initFault) IN
    IF r.threw THEN Returned(FALSE) ELSE r

\* try { parse; some(capability matches) } catch { return false }
verifyRetrievalAccess(encodedToken, pieceCid) ==
    LET parsed == UCAN_parse(encodedToken) IN
    IF parsed.threw THEN FALSE ELSE hasCapability(parsed.value, pieceCid)

-----------------------------------------------------------------------------
(* Backend: UcanService with its calls resolved into the steps between their awaits *)

\* A handler of SpecBackend is a run of the service without another call in flight,
\* and ServiceKey is the key that run holds.  Here the async methods are taken apart:
\* JavaScript runs one continuation at a time, so the code from one await to the next
\* is one step, and the continuations of the calls in flight interleave in any order.

NoSigner == 0                     \* this.signer = null
CallIds == 1..MaxCalls
NoCall == [op |-> "", pc |-> "idle", pieceCid |-> ""]

\* init() line 22 reached with no signer: ed25519.generate() is started and awaited
awaitGenerate(c, op, pieceCid) ==
    inflight' = [inflight EXCEPT
                    ![c] = [op |-> op, pc |-> "generating", pieceCid |-> pieceCid]]

\* lines 37-51 of issueRetrievalToken, run without an await in between up to the
\* evaluation of `issuer: this.signer!': the token is signed with the key held now
signToken(userDid, pieceCid, parseFault) ==
    IF parseFault THEN issued
    ELSE issued \cup {Token(ucanSigner, userDid,
                            <<[with |-> ResourceOf(pieceCid), can |-> RetrieveAction]>>,
                            0, now + TokenLifetime)}

\* init() called: with a signer it returns it, without one it awaits generate()
init_call(c) ==
    /\ inflight[c].pc = "idle"
    /\ IF ucanSigner = NoSigner THEN awaitGenerate(c, "init", "") ELSE UNCHANGED inflight
    /\ UNCHANGED <<regVars, escVars, balanceOf, now, issued, response, upload,
                   ucanSigner, generated>>

\* issueRetrievalToken called: `if (!this.signer) await this.init()', and with a
\* signer straight on to the signing
issueRetrievalToken_call(c, pieceCid, parseFault) ==
    /\ inflight[c].pc = "idle"
    /\ IF ucanSigner = NoSigner
       THEN /\ awaitGenerate(c, "issueRetrievalToken", pieceCid)
            /\ UNCHANGED issued
       ELSE /\ issued' = signToken(<<"did:key:user">>, pieceCid, parseFault)
            /\ UNCHANGED inflight
    /\ UNCHANGED <<regVars, escVars, balanceOf, now, response, upload, ucanSigner, generated>>

\* verifyRetrievalAccess called: the same first line, then the parsing and matching,
\* which read no field of the service
verifyRetrievalAccess_call(c, pieceCid) ==
    /\ inflight[c].pc = "idle"
    /\ IF ucanSigner = NoSigner
       THEN awaitGenerate(c, "verifyRetrievalAccess", pieceCid)
       ELSE UNCHANGED inflight
    /\ UNCHANGED <<regVars, escVars, balanceOf, now, issued, response, upload,
                   ucanSigner, generated>>

\* the promise of ed25519.generate() resolves with a new key pair and init() goes on
\* after its await: `this.signer = ...' (line 24) and return; the method that awaited
\* init() goes on in a later continuation
generate_resolved(c) ==
    /\ inflight[c].pc = "generating"
    /\ generated' = generated + 1
    /\ ucanSigner' = generated + 1
    /\ inflight' = [inflight EXCEPT ![c] = IF inflight[c].op = "init" THEN NoCall
                                           ELSE [@ EXCEPT !.pc = "initialized"]]
    /\ UNCHANGED <<regVars, escVars, balanceOf, now, issued, response, upload>>

\* the method goes on after `await this.init()'
init_returned(c, parseFault) ==
    /\ inflight[c].pc = "initialized"
    /\ issued' = IF inflight[c].op = "issueRetrievalToken"
                 THEN signToken(<<"did:key:user">>, inflight[c].pieceCid, parseFault)
                 ELSE issued
    /\ inflight' = [inflight EXCEPT ![c] = NoCall]
    /\ UNCHANGED <<regVars, escVars, balanceOf, now, response, upload, ucanSigner, generated>>

\* The token service alone: any calls of its three methods, overlapping in any way.
NextSigner ==
    \/ \E c \in CallIds : init_call(c)
    \/ \E c \in CallIds, p \in CIDs, parseFault \in BOOLEAN :
          issueRetrievalToken_call(c, p, parseFault)
    \/ \E c \in CallIds, p \in CIDs : verifyRetrievalAccess_call(c, p)
    \/ \E c \in CallIds : generate_resolved(c)
    \/ \E c \in CallIds, parseFault \in BOOLEAN : init_returned(c, parseFault)

-----------------------------------------------------------------------------

(* Backend: the routes POST /authorize and GET /download/:pieceCid *)

Call(fn, result) == [fn |-> fn, result |-> result]

Response(route, pieceCid, status, calls) ==
    [route |-> route, pieceCid |-> pieceCid, status |-> status, calls |-> calls]

\* POST /authorize minting the token before it looks at the payment
authorizeResult_issueFirst(pieceCid, userAddress, fault, parseFault) ==
    IF pieceCid = "" \/ userAddress = <<>>
    THEN [status |-> 400, calls |-> <<>>, token |-> Malformed]
    ELSE LET userDid == <<"did:pkh:eip155:1:">> \o toLowerCase(userAddress)
             token == issueRetrievalToken(userDid, pieceCid, parseFault)
             isPaid == verifyPayment(pieceCid, userAddress, fault).value IN
         IF token.threw
         THEN [status |-> 500, token |-> Malformed,
               calls |-> <<Call("issueRetrievalToken", FALSE)>>]
         ELSE [status |-> 200, token |-> token.value,
               calls |-> <<Call("issueRetrievalToken", TRUE), Call("verifyPayment", isPaid)>>]

\* the handler of POST /authorize for the body {pieceCid, userAddress}; an absent or
\* empty field is the empty text
authorizeResult(pieceCid, userAddress, fault, parseFault) ==
    IF pieceCid = "" \/ userAddress = <<>>
    THEN [status |-> 400, calls |-> <<>>, token |-> Malformed]
    ELSE LET isPaid == verifyPayment(pieceCid, userAddress, fault).value
             paid == Call("verifyPayment", isPaid) IN
         IF ~isPaid
         THEN [status |-> 402, calls |-> <<paid>>, token |-> Malformed]
         ELSE LET userDid == <<"did:pkh:eip155:1:">> \o toLowerCase(userAddress)
                  token == issueRetrievalToken(userDid, pieceCid, parseFault) IN
              IF token.threw
              THEN [status |-> 500, token |-> Malformed,
                    calls |-> <<paid, Call("issueRetrievalToken", FALSE)>>]
              ELSE [status |-> 200, token |-> token.value,
                    calls |-> <<paid, Call("issueRetrievalToken", TRUE)>>]

authorize(pieceCid, userAddress, fault, parseFault) ==
    LET r == authorizeResult(pieceCid, userAddress, fault, parseFault) IN
    /\ r.status = 200 => Cardinality(issued \cup {r.token}) <= MaxIssued
    /\ issued' = IF r.status = 200 THEN issued \cup {r.token} ELSE issued
    /\ response' = Response("authorize", pieceCid, r.status, r.calls)
    /\ UNCHANGED <<regVars, escVars, balanceOf, now, upload, ucanVars>>

\* the Authorization header as its parts between single spaces: absent is <<>>;
\* requireUcan wants it to start with "Bearer " and takes the part after the first space
startsWithBearer(authHeader) == Len(authHeader) >= 2 /\ authHeader[1] = "Bearer"

\* GET /download/:pieceCid without the requireUcan middleware
downloadResult_withoutRequireUcan(pieceCid, authHeader, downloadFault) ==
    IF downloadFault
    THEN [status |-> 500, calls |-> <<Call("downloadFile", FALSE)>>]
    ELSE [status |-> 200, calls |-> <<Call("downloadFile", TRUE)>>]

\* requireUcan followed by the handler of GET /download/:pieceCid; downloadFault is a
\* failure of the storage collaborator's download
downloadResult(pieceCid, authHeader, downloadFault) ==
    IF ~startsWithBearer(authHeader)
    THEN [status |-> 401, calls |-> <<>>]
    ELSE LET isAuthorized == verifyRetrievalAccess(authHeader[2], pieceCid)
             verified == Call("verifyRetrievalAccess", isAuthorized) IN
         IF ~isAuthorized
         THEN [status |-> 403, calls |-> <<verified>>]
         ELSE IF downloadFault
              THEN [status |-> 500, calls |-> <<verified, Call("downloadFile", FALSE)>>]
              ELSE [status |-> 200, calls |-> <<verified, Call("downloadFile", TRUE)>>]

download(pieceCid, authHeader, downloadFault) ==
    LET r == downloadResult(pieceCid, authHeader, downloadFault) IN
    /\ response' = Response("download", pieceCid, r.status, r.calls)
    /\ UNCHANGED <<regVars, escVars, balanceOf, now, issued, upload, ucanVars>>

-----------------------------------------------------------------------------
(* Backend: services/storage.service.ts (uploadFile) with services/contract.service.ts *)

\* the wallet of the backend (FILECOIN_PRIVATE_KEY, the admin wallet)
Signer == Owner

\* stands for the 65 bytes below which uploadFile refuses the buffer
MinCarSize == 1

\* no upload in progress
NoUpload == [pc |-> "idle", pieceCid |-> "", size |-> 0, metadataHash |-> 0,
             storagePrice |-> 0, fileId |-> 0, calls |-> <<>>]

\* the run in progress after one more call
Calls(name) == [upload EXCEPT !.calls = Append(@, name)]

\* uploadFile up to the price: the size check, calculatePieceCID (a local computation
\* that gives the content identifier pieceCid), and getStoragePrice
uploadStart(pieceCid, size, metadataHash) ==
    /\ upload.pc \in {"idle", "failed", "done"}
    /\ upload' =
          IF size < MinCarSize
          THEN [NoUpload EXCEPT !.pc = "failed"]
          ELSE IF calculateStoragePrice(size) > UintMax
          THEN [NoUpload EXCEPT !.pc = "failed",
                                !.calls = <<"calculatePieceCID", "getStoragePrice">>]
          ELSE [pc |-> "priced", pieceCid |-> pieceCid, size |-> size,
                metadataHash |-> metadataHash,
                storagePrice |-> calculateStoragePrice(size), fileId |-> 0,
                calls |-> <<"calculatePieceCID", "getStoragePrice">>]
    /\ UNCHANGED <<regVars, escVars, balanceOf, now, issued, response, ucanVars>>

\* ContractService.registerFile: the transaction, and the file id from its event
uploadRegister ==
    /\ upload.pc = "priced"
    /\ registerFile_tx(Signer, upload.pieceCid, upload.size, upload.metadataHash)
    /\ upload' =
          IF registerFileResult(Signer, upload.pieceCid, upload.size, upload.metadataHash) = OK
          THEN [Calls("registerFile") EXCEPT !.pc = "registered", !.fileId = nextFileId]
          ELSE [Calls("registerFile") EXCEPT !.pc = "failed"]
    /\ UNCHANGED <<issued, response, ucanVars>>

\* the checks ContractService.depositPayment makes before it sends the transaction
depositPaymentChecks(fileId, amount) ==
    /\ balanceOf[Signer] >= amount
    /\ File(fileId).exists
    /\ File(fileId).storagePrice = amount
    /\ File(fileId).status = Uploaded
    /\ EscrowIdOf(fileId) = 0
    /\ ~escrowPaused

\* uploadFile catching the failure of depositPayment and going on to set the timer
uploadDeposit_alwaysSchedules ==
    /\ upload.pc = "registered"
    /\ IF depositPaymentChecks(upload.fileId, upload.storagePrice)
       THEN depositForFile_tx(Signer, upload.fileId, upload.storagePrice)
       ELSE UNCHANGED <<regVars, escVars, balanceOf, now>>
    /\ upload' = [Calls("depositPayment") EXCEPT !.pc = "scheduled"]
    /\ UNCHANGED <<issued, response, ucanVars>>

\* ContractService.depositPayment; on success uploadFile sets the two-second timer
\* that will confirm the storage, and returns
uploadDeposit ==
    /\ upload.pc = "registered"
    /\ IF depositPaymentChecks(upload.fileId, upload.storagePrice)
       THEN /\ depositForFile_tx(Signer, upload.fileId, upload.storagePrice)
            /\ upload' =
                  IF depositForFileResult(Signer, upload.fileId, upload.storagePrice) = OK
                  THEN [Calls("depositPayment") EXCEPT !.pc = "scheduled"]
                  ELSE [Calls("depositPayment") EXCEPT !.pc = "failed"]
       ELSE /\ upload' = [Calls("depositPayment") EXCEPT !.pc = "failed"]
            /\ UNCHANGED <<regVars, escVars, balanceOf, now>>
    /\ UNCHANGED <<issued, response, ucanVars>>

\* the timer fires: ContractService.confirmStorage, whose failure is only logged
uploadConfirm ==
    /\ upload.pc = "scheduled"
    /\ confirmStorage_tx(Signer, upload.fileId)
    /\ upload' = [Calls("confirmStorage") EXCEPT !.pc = "done"]
    /\ UNCHANGED <<issued, response, ucanVars>>

-----------------------------------------------------------------------------
(* The chain *)

\* a later block: block.timestamp grows by d seconds
Tick(d) ==
    /\ now + d <= Genesis + MaxElapsed
    /\ now' = now + d
    /\ UNCHANGED <<regVars, escVars, balanceOf, backVars>>

\* no request handled yet
NoResponse == [route |-> "", pieceCid |-> "", status |-> 0, calls |-> <<>>]

\* the state after both constructors (deploy script: treasury = deployer)
Init ==
    /\ files = <<>>
    /\ cidToFileId = [c \in CIDs |-> 0]
    /\ userFiles = [u \in Accounts |-> <<>>]
    /\ nextFileId = 1
    /\ totalFiles = 0
    /\ pricePerByte = InitialPricePerByte
    /\ registryPaused = FALSE
    /\ escrows = <<>>
    /\ fileToEscrow = [f \in FileIds |-> 0]
    /\ userEscrows = [u \in Accounts |-> <<>>]
    /\ nextEscrowId = 1
    /\ treasury = Owner
    /\ totalEscrowed = 0
    /\ totalReleased = 0
    /\ escrowPaused = FALSE
    /\ payouts = <<>>
    /\ balanceOf = [a \in Accounts |-> IF a = EscrowAddress THEN 0 ELSE InitialFunds]
    /\ now = Genesis
    /\ issued = {}
    /\ response = NoResponse
    /\ upload = NoUpload
    /\ ucanSigner = NoSigner
    /\ generated = 0
    /\ inflight = [c \in CallIds |-> NoCall]

\* The escrow life cycle: two files of one size, registered by alice at the initial rate
\* with metadataHash = 1 (the digest with which depositForFile reads the record back as
\* existing), alice as the payer, every operation of both ledgers but the rate and
\* treasury updates, and the clock.
Next ==
    \/ \E c \in CidInputs, n \in {0, FileSize} : registerFile("alice", c, n, 1)
    \/ \E s \in Users, f \in IdInputs : linkPayment(s, f, s, FileSize)
    \/ \E s \in Users, f \in IdInputs : confirmStorage(s, f)
    \/ \E s \in Users, f \in IdInputs : markRetrieved(s, f)
    \/ \E s \in Users : FileRegistry_pause(s)
    \/ \E s \in Users : FileRegistry_unpause(s)
    \/ \E f \in IdInputs, a \in AmountInputs : depositForFile("alice", f, a)
    \/ \E s \in Users, f \in IdInputs : releasePayment(s, f)
    \/ \E s \in Users, f \in IdInputs : refundPayment(s, f)
    \/ \E s \in Users, e \in IdInputs : emergencyRefund(s, e)
    \/ \E s \in Users, a \in {FileSize, UintMax} : emergencyWithdraw(s, a)
    \/ \E s \in Users : PaymentEscrow_pause(s)
    \/ \E s \in Users : PaymentEscrow_unpause(s)
    \/ \E d \in {RefundWindow - 1, RefundWindow} : Tick(d)

Spec == Init /\ [][Next]_vars

\* The file ledger alone, with every input of registerFile and the rate updates.
NextRegistry ==
    \/ \E s \in Users, c \in CidInputs, n \in SizeInputs : registerFile(s, c, n, 0)
    \/ \E s \in Users, f \in IdInputs : linkPayment(s, f, s, 0)
    \/ \E s \in Users, f \in IdInputs : confirmStorage(s, f)
    \/ \E s \in Users, f \in IdInputs : markRetrieved(s, f)
    \/ \E s \in Users, p \in RateInputs : updateStoragePrice(s, p)
    \/ \E s \in Users : FileRegistry_pause(s)
    \/ \E s \in Users : FileRegistry_unpause(s)

SpecRegistry == Init /\ [][NextRegistry]_vars

\* tokens that were not minted by the service: signed with another key, for the file "a"
ForgedTokens ==
    {Token(OtherKey, <<"did:key:other">>,
           <<[with |-> ResourceOf("a"), can |-> RetrieveAction]>>, 0, Genesis + MaxElapsed)}

\* what a client can put after "Bearer ": a token the service minted, a forged one, garbage
PresentedTokens == issued \cup ForgedTokens \cup {Malformed}

HeaderInputs ==
    {<<>>} \cup {<<scheme, t>> : scheme \in {"Basic", "Bearer"}, t \in PresentedTokens}

\* The backend in front of the ledgers: one file of alice's that is registered, paid,
\* confirmed, released or refunded, the two routes with every request, every ledger
\* fault and every storage fault, and a clock that passes the lifetime of a token.
NextBackend ==
    \/ registerFile("alice", "a", FileSize, 1)
    \/ \E f \in IdInputs : depositForFile("alice", f, FileSize)
    \/ \E f \in IdInputs : confirmStorage(Owner, f)
    \/ \E f \in IdInputs : releasePayment(Owner, f)
    \/ \E e \in IdInputs : emergencyRefund(Owner, e)
    \/ \E d \in {TokenLifetime - 1, TokenLifetime} :
          now + d <= Genesis + MaxServiceTime /\ Tick(d)
    \/ \E c \in RequestCids \cup {""}, p \in PrincipalInputs \cup {<<>>},
          fault \in FaultInputs, parseFault \in BOOLEAN :
          authorize(c, p, fault, parseFault)
    \/ \E c \in RequestCids, h \in HeaderInputs, downloadFault \in BOOLEAN :
          download(c, h, downloadFault)

SpecBackend == Init /\ [][NextBackend]_vars

\* The upload flow of the backend: uploads of either content with every digest class,
\* at the initial rate and at the rate 1, with the registry paused and unpaused and
\* with payments linked from outside in between.
NextUpload ==
    \/ \E c \in CIDs, n \in {0, FileSize}, h \in HashInputs : uploadStart(c, n, h)
    \/ uploadRegister
    \/ uploadDeposit
    \/ uploadConfirm
    \/ \E p \in {1, InitialPricePerByte} : updateStoragePrice(Owner, p)
    \/ \E f \in FileIds : linkPayment("alice", f, "alice", 0)
    \/ FileRegistry_pause(Owner)
    \/ FileRegistry_unpause(Owner)

SpecUpload == Init /\ [][NextUpload]_vars

\* The operator's functions called by the operator and by somebody else: one file of
\* alice's through its whole life, the rate updates, and the clock past the refund window.
NextOwner ==
    \/ registerFile("alice", "a", FileSize, 1)
    \/ \E f \in IdInputs : depositForFile("alice", f, FileSize)
    \/ \E s \in Users, f \in IdInputs : confirmStorage(s, f)
    \/ \E s \in Users, f \in IdInputs : releasePayment(s, f)
    \/ \E s \in Users, f \in IdInputs : refundPayment(s, f)
    \/ \E s \in Users, e \in IdInputs : emergencyRefund(s, e)
    \/ \E s \in Users, p \in RateInputs : updateStoragePrice(s, p)
    \/ \E s \in Users : PaymentEscrow_pause(s)
    \/ \E s \in Users : PaymentEscrow_unpause(s)
    \/ Tick(RefundWindow)

SpecOwner == Init /\ [][NextOwner]_vars

\* the addresses updateTreasury may be given: the accounts, the escrow contract's own
\* address among them, and address(0)
TreasuryInputs == Accounts \cup {ZeroAddress}

\* The funds of the escrows: two files of one size, deposits by either user, every
\* operation of PaymentEscrow that writes an escrow record or moves tokens under a
\* record (the restricted ones sent by the owner), the treasury updates, and the clock,
\* with the contract not paused.  emergencyWithdraw, which moves tokens without a
\* record, is left out.
NextFunds ==
    \/ \E c \in CIDs : registerFile("alice", c, FileSize, 1)
    \/ \E s \in Users, f \in IdInputs, a \in AmountInputs : depositForFile(s, f, a)
    \/ \E f \in IdInputs : confirmStorage(Owner, f)
    \/ \E f \in IdInputs : releasePayment(Owner, f)
    \/ \E f \in IdInputs : refundPayment(Owner, f)
    \/ \E e \in IdInputs : emergencyRefund(Owner, e)
    \/ \E t \in TreasuryInputs : updateTreasury(Owner, t)
    \/ Tick(RefundWindow)

SpecFunds == Init /\ [][NextFunds]_vars

SpecSigner == Init /\ [][NextSigner]_vars

-----------------------------------------------------------------------------
(* Claims *)

\* C1: a record's storagePrice is fileSize times the pricePerByte current when its
\* registerFile committed, and no later operation (updateStoragePrice included) changes
\* the storagePrice of an existing record.
C1_PriceFixedAtRegistration ==
    [][/\ \A f \in DOMAIN files : files'[f].storagePrice = files[f].storagePrice
       /\ \A f \in (DOMAIN files') \ (DOMAIN files) :
              files'[f].storagePrice = files'[f].fileSize * pricePerByte]_vars

\* a record whose price was fixed at a rate that is no longer the current one
C1_Witness ==
    \E f \in DOMAIN files :
        /\ files[f].storagePrice # files[f].fileSize * pricePerByte
        /\ files[f].storagePrice = files[f].fileSize * InitialPricePerByte

\* C2: the status of a file never decreases in Uploaded < Paid < Stored < Retrieved and
\* never skips a state (so each state is entered at most once); a new record starts
\* Uploaded.
C2_LifecycleLinear ==
    [][/\ \A f \in DOMAIN files :
              files'[f].status \in {files[f].status, files[f].status + 1}
       /\ \A f \in (DOMAIN files') \ (DOMAIN files) : files'[f].status = Uploaded]_vars

\* a file that went through the whole life cycle, paid through the escrow
C2_Witness ==
    \E f \in DOMAIN files :
        /\ files[f].status = Retrieved
        /\ EscrowIdOf(f) # 0
        /\ files[f].paidTime < files[f].storedTime

\* C3 as stated (read for a registry that is not paused): registerFile with a content
\* identifier that already maps to a record fails with "CID already exists" whoever the
\* caller and whatever the size.
C3_DuplicateAlwaysDuplicateResource ==
    \A s \in Users, c \in CIDs, n \in SizeInputs, h \in HashInputs :
        (~registryPaused /\ cidToFileId[c] # 0) =>
            registerFileResult(s, c, n, h) = DuplicateCid

\* C3 as amended: registerFile with a content identifier that already maps to a record
\* always fails and leaves nextFileId, totalFiles, the cid-to-id mapping, the records and
\* the per-uploader lists unchanged; the failure is "CID already exists" when the registry
\* is not paused and the size is not 0; the cid-to-id mapping is injective and never
\* changes once set.
C3_DuplicateRejected ==
    [][/\ \A c \in CIDs : cidToFileId[c] # 0 => cidToFileId'[c] = cidToFileId[c]
       /\ \A c1, c2 \in CIDs :
              (cidToFileId'[c1] # 0 /\ cidToFileId'[c1] = cidToFileId'[c2]) => c1 = c2
       /\ \A s \in Users, c \in CIDs, n \in SizeInputs :
              cidToFileId'[c] # 0 =>
                  /\ registerFileResult(s, c, n, 0)' # OK
                  /\ (~registryPaused' /\ n # 0) => registerFileResult(s, c, n, 0)' = DuplicateCid
       \* a step that changes a counter, a record's identifier or a list is the
       \* registration of an identifier that was not mapped
       /\ <<nextFileId, totalFiles, userFiles>>' # <<nextFileId, totalFiles, userFiles>> =>
              /\ nextFileId' = nextFileId + 1
              /\ cidToFileId[files'[nextFileId].pieceCid] = 0
       /\ \A f \in DOMAIN files : files'[f].pieceCid = files[f].pieceCid]_vars

\* both identifiers are registered, by different callers, and a further registerFile of
\* either is rejected as a duplicate
C3_Witness ==
    /\ \A c \in CIDs : cidToFileId[c] # 0
    /\ \E f, g \in DOMAIN files : files[f].uploader # files[g].uploader
    /\ \A s \in Users, c \in CIDs : registerFileResult(s, c, 2, 0) = DuplicateCid

\* the escrow record of a file (the zero record when it has none)
EscrowOf(fileId) == Escrow(EscrowIdOf(fileId))

Unfinalized(escrow) == ~escrow.released /\ ~escrow.refunded

\* the two revert reasons the spec calls AlreadyFinalized
AlreadyFinalized == {AlreadyReleased, AlreadyRefunded}

\* C4 as stated (read for an escrow contract that is not paused): every depositForFile
\* on a file that has an escrow mapping, or whose status is Paid, Stored or Retrieved,
\* fails with "File already paid".
C4_AnyDepositAlreadyPaid ==
    \A s \in Users, f \in FileIds, a \in AmountInputs :
        (~escrowPaused /\ (EscrowIdOf(f) # 0 \/ File(f).status \in {Paid, Stored, Retrieved})) =>
            depositForFileResult(s, f, a) = AlreadyPaid

\* C4 as amended: fileToEscrow is a partial injection from file ids to escrow ids with
\* escrows[fileToEscrow[f]].fileId = f, so a file has at most one escrow record; every
\* depositForFile on a file that has an escrow mapping, or whose status is Paid, Stored
\* or Retrieved, fails: with "File already paid" when the call gets as far as that check,
\* and otherwise with the failure of an earlier step of depositForFile (paused, the read
\* of the file record, file not found, amount mismatch).
C4_OneEscrowPerFile ==
    /\ \A f \in FileIds : EscrowIdOf(f) # 0 =>
           /\ EscrowIdOf(f) \in DOMAIN escrows
           /\ escrows[EscrowIdOf(f)].fileId = f
    /\ \A e \in DOMAIN escrows : EscrowIdOf(escrows[e].fileId) = e
    /\ \A s \in Users, f \in FileIds, a \in AmountInputs :
           (EscrowIdOf(f) # 0 \/ File(f).status \in {Paid, Stored, Retrieved}) =>
               LET ret == IFileRegistry_getFile(getFileReturnData(File(f))) IN
               /\ depositForFileResult(s, f, a) \in
                      {EnforcedPause, DecodeRevert, NotFound, IncorrectAmount, AlreadyPaid}
               /\ (~escrowPaused /\ ret.valid /\ ret.exists /\ a = ret.storagePrice) =>
                      depositForFileResult(s, f, a) = AlreadyPaid

\* both files have an escrow of their own, and a second deposit for either is rejected
\* with "File already paid"
C4_Witness ==
    /\ \A f \in FileIds : EscrowIdOf(f) # 0
    /\ Len(escrows) = Cardinality(FileIds)
    /\ \E a \in AmountInputs : \A f \in FileIds : depositForFileResult("alice", f, a) = AlreadyPaid

\* C5: depositForFile with an amount different from the file's recorded storagePrice
\* always fails.
C5_MismatchRejected ==
    \A s \in Users, f \in DOMAIN files, a \in AmountInputs :
        a # files[f].storagePrice => depositForFileResult(s, f, a) # OK

\* C6 as stated (read for an escrow contract that is not paused and holds the locked
\* amount): releasePayment by the operator succeeds iff the status is exactly Stored and
\* the file's escrow exists and is unfinalized.
C6_ReleaseIffExactlyStored ==
    \A f \in FileIds :
        (~escrowPaused /\ balanceOf[EscrowAddress] >= EscrowOf(f).amount) =>
            ((releasePaymentResult(Owner, f) = OK) <=>
                (File(f).status = Stored /\ EscrowIdOf(f) # 0 /\ Unfinalized(EscrowOf(f))))

\* C6 as amended: releasePayment by the operator succeeds iff the escrow contract is not
\* paused, the status is Stored or Retrieved, the file's escrow exists and is unfinalized,
\* and the escrow account holds at least the locked amount; it never succeeds twice for
\* the same escrow.
C6_ReleaseIff ==
    /\ \A f \in FileIds :
           (releasePaymentResult(Owner, f) = OK) <=>
               /\ ~escrowPaused
               /\ File(f).status \in {Stored, Retrieved}
               /\ EscrowIdOf(f) # 0
               /\ Unfinalized(EscrowOf(f))
               /\ balanceOf[EscrowAddress] >= EscrowOf(f).amount
    /\ \A e \in DOMAIN escrows :
           /\ payouts[e].released <= 1
           /\ (payouts[e].released = 1) <=> escrows[e].released

\* a release that succeeded on a Stored file, where a second release is refused
C6_Witness ==
    \E f \in FileIds :
        /\ File(f).status = Stored
        /\ EscrowOf(f).released
        /\ payouts[EscrowIdOf(f)].released = 1
        /\ ~escrowPaused
        /\ releasePaymentResult(Owner, f) = AlreadyReleased

\* C7 as stated (read for a file that has an escrow and an escrow contract that is not
\* paused and holds the locked amount): refundPayment by the operator succeeds iff
\* now - lockTime >= 7 days, the status is not Stored and the escrow is unfinalized.
C7_RefundIffNotStored ==
    \A f \in FileIds :
        (EscrowIdOf(f) # 0 /\ ~escrowPaused /\ balanceOf[EscrowAddress] >= EscrowOf(f).amount) =>
            ((refundPaymentResult(Owner, f) = OK) <=>
                /\ now - EscrowOf(f).lockTime >= RefundWindow
                /\ File(f).status # Stored
                /\ Unfinalized(EscrowOf(f)))

\* C7 as amended: refundPayment by the operator succeeds iff the escrow contract is not
\* paused, the file's escrow exists and is unfinalized, now - lockTime >= 7 days, the
\* status is neither Stored nor Retrieved, and the escrow account holds at least the
\* locked amount; before lockTime + 7 days it always fails, with "Too early for refund"
\* when the contract is not paused and the escrow is unfinalized.
C7_RefundIff ==
    \A f \in FileIds :
        /\ (refundPaymentResult(Owner, f) = OK) <=>
               /\ ~escrowPaused
               /\ EscrowIdOf(f) # 0
               /\ Unfinalized(EscrowOf(f))
               /\ now - EscrowOf(f).lockTime >= RefundWindow
               /\ File(f).status \notin {Stored, Retrieved}
               /\ balanceOf[EscrowAddress] >= EscrowOf(f).amount
        /\ (EscrowIdOf(f) # 0 /\ now < EscrowOf(f).lockTime + RefundWindow) =>
               /\ refundPaymentResult(Owner, f) # OK
               /\ (~escrowPaused /\ Unfinalized(EscrowOf(f))) =>
                      refundPaymentResult(Owner, f) = TooEarly

\* one escrow can be refunded exactly 7 days after its lock while another, locked later,
\* is still too early
C7_Witness ==
    \E f, g \in FileIds :
        /\ now = EscrowOf(f).lockTime + RefundWindow
        /\ refundPaymentResult(Owner, f) = OK
        /\ EscrowIdOf(g) # 0
        /\ now < EscrowOf(g).lockTime + RefundWindow
        /\ refundPaymentResult(Owner, g) = TooEarly

\* C8: no escrow record is released and refunded together, and once either flag is true
\* no later operation changes a field of the record or pays out for it again.
C8_FinalizedTerminal ==
    [][\A e \in DOMAIN escrows' :
          /\ ~(escrows'[e].released /\ escrows'[e].refunded)
          /\ (e \in DOMAIN escrows /\ ~Unfinalized(escrows[e])) =>
                 /\ escrows'[e] = escrows[e]
                 /\ payouts'[e] = payouts[e]]_vars

\* one escrow was released and the other refunded
C8_Witness ==
    \E e1, e2 \in DOMAIN escrows :
        /\ escrows[e1].released /\ payouts[e1] = [released |-> 1, refunded |-> 0]
        /\ escrows[e2].refunded /\ payouts[e2] = [released |-> 0, refunded |-> 1]

\* C9: whichever of releasePayment, refundPayment and emergencyRefund commits first on an
\* escrow, it moves the locked amount out of the escrow account once, and each of the
\* three, committed next by the operator, fails as already finalized; no escrow is ever
\* paid out more than once.
C9_FirstCommitWins ==
    [][\A e \in DOMAIN escrows :
          /\ payouts'[e].released + payouts'[e].refunded <= 1
          /\ (Unfinalized(escrows[e]) /\ ~Unfinalized(escrows'[e])) =>
                 /\ payouts'[e].released + payouts'[e].refunded = 1
                 /\ releasePaymentResult(Owner, escrows[e].fileId)' \in AlreadyFinalized
                 /\ refundPaymentResult(Owner, escrows[e].fileId)' \in AlreadyFinalized
                 /\ emergencyRefundResult(Owner, e)' \in AlreadyFinalized]_vars

\* a refund won against a release that the file's status would have allowed
C9_Witness ==
    \E e \in DOMAIN escrows :
        /\ escrows[e].refunded
        /\ File(escrows[e].fileId).status = Stored
        /\ payouts[e] = [released |-> 0, refunded |-> 1]
        /\ balanceOf[EscrowAddress] >= escrows[e].amount
        /\ releasePaymentResult(Owner, escrows[e].fileId) = AlreadyRefunded

\* C10: every file whose status is Paid, Stored or Retrieved has an escrow record whose
\* amount is the file's storagePrice.
C10_PaidHasEscrow ==
    \A f \in DOMAIN files :
        files[f].status \in {Paid, Stored, Retrieved} =>
            /\ EscrowIdOf(f) # 0
            /\ EscrowOf(f).amount = files[f].storagePrice

\* the five effects of a successful depositForFile(fileId, amount) sent by `sender'
DepositEffects(sender, fileId, amount) ==
    /\ balanceOf[sender] >= amount
    /\ balanceOf' = Transfer(balanceOf, sender, EscrowAddress, amount)
    /\ Len(escrows') = Len(escrows) + 1
    /\ LET escrow == escrows'[Len(escrows')] IN
          /\ escrow.fileId = fileId /\ escrow.payer = sender /\ escrow.amount = amount
          /\ ~escrow.released /\ ~escrow.refunded
    /\ fileToEscrow'[fileId] = Len(escrows')
    /\ totalEscrowed' = totalEscrowed + amount
    /\ files'[fileId].status = Paid

SameIgnoringCase(x, y) ==
    /\ Len(x) = Len(y)
    /\ \A i \in DOMAIN x :
          \/ x[i] = y[i]
          \/ \E k \in DOMAIN UpperCase : {x[i], y[i]} = {UpperCase[k], LowerCase[k]}

\* C12: with both ledger queries answering, verifyPayment(contentId, principal) returns
\* true if and only if contentId is the identifier of a registered file, that file has
\* an escrow record, the escrow is not refunded, its amount is positive and its payer
\* is the principal up to letter case; otherwise it returns false, and it never throws.
C12_VerifyPaymentIff ==
    \A c \in RequestCids \cup {""}, p \in PrincipalInputs :
        LET r == verifyPayment(c, p, "none") IN
        /\ ~r.threw
        /\ r.value <=>
              \E f \in 1..Len(files) :
                  /\ files[f].pieceCid = c
                  /\ EscrowIdOf(f) # 0
                  /\ ~EscrowOf(f).refunded
                  /\ EscrowOf(f).amount > 0
                  /\ SameIgnoringCase(AddressString(EscrowOf(f).payer), p)

\* an authorize request passed verification, and verification holds for the payer's
\* address in another letter case but neither for another account nor for the content
\* identifier in another letter case
C12_Witness ==
    /\ response.route = "authorize" /\ response.status = 200
    /\ verifyPayment("a", <<"0", "X", "A", "B">>, "none").value
    /\ ~verifyPayment("a", AddressString("owner"), "none").value
    /\ ~verifyPayment("A", AddressString("alice"), "none").value

\* C13: verifyPayment is fail-closed: when either ledger query fails, it returns false;
\* it neither returns true nor throws.
C13_FailClosed ==
    \A c \in RequestCids \cup {""}, p \in PrincipalInputs, fault \in FaultInputs \ {"none"} :
        verifyPayment(c, p, fault) = Returned(FALSE)

\* the payer's payment is in place, the escrow query of a request fails inside
\* verifyPayment, and an authorize request for the file was answered 402
C13_Witness ==
    /\ verifyPayment("a", AddressString("alice"), "none").value
    /\ verifyPaymentTry("a", AddressString("alice"), "escrow").threw
    /\ response = Response("authorize", "a", 402, <<Call("verifyPayment", FALSE)>>)

\* the token carries exactly the capability (storage:<pieceCid>, storage/retrieve)
CarriesRetrieve(token, pieceCid) ==
    \E i \in DOMAIN token.capabilities :
        token.capabilities[i] = [with |-> ResourceOf(pieceCid), can |-> RetrieveAction]

\* C14: verifyRetrievalAccess(token, contentId) accepts a token if and only if it is
\* signed with the service's key, carries the resource storage:<contentId> with the
\* retrieve action, and the current time is in [notBefore, expiry); so a token signed
\* by somebody else and a token at or past its expiry are rejected.
C14_AcceptedIffValid ==
    \A t \in PresentedTokens, c \in RequestCids :
        verifyRetrievalAccess(t, c) <=>
            /\ t.wellFormed
            /\ t.signature = ServiceKey
            /\ CarriesRetrieve(t, c)
            /\ t.notBefore <= now
            /\ now < t.expiration

\* C15: a token authorizes exactly one (resource, action) pair: a token that
\* issueRetrievalToken mints for content identifier A is accepted for B if and only if
\* B is A, character for character; and every token minted carries one capability.
C15_ExactResource ==
    /\ \A a \in RequestCids, b \in RequestCids :
          LET t == issueRetrievalToken(<<"did:pkh:eip155:1:">>, a, FALSE).value IN
          verifyRetrievalAccess(t, b) <=> (a = b)
    /\ \A t \in issued :
          /\ Len(t.capabilities) = 1
          /\ \A b \in RequestCids :
                verifyRetrievalAccess(t, b) => t.capabilities[1].with = ResourceOf(b)

\* a minted token for "a" is accepted for "a" and for neither "A" nor "ab", and a
\* download of another identifier was refused with a token presented
C15_Witness ==
    /\ \E t \in issued :
          /\ verifyRetrievalAccess(t, "a")
          /\ ~verifyRetrievalAccess(t, "A")
          /\ ~verifyRetrievalAccess(t, "ab")
    /\ response.route = "download" /\ response.status = 403
    /\ response.pieceCid \in {"A", "ab"}

\* the handler called fn
Invoked(calls, fn) == \E i \in DOMAIN calls : calls[i].fn = fn

\* C16: POST /authorize issues a token only after payment is verified.  For every
\* request: issueRetrievalToken is invoked only after verifyPayment returned true in the
\* same request; when verifyPayment returns false the answer is 402 and no token is
\* minted; when a field is missing the answer is 400 and neither verification nor
\* issuance is performed.  And the set of minted tokens grows only in such a request.
C16_IssueOnlyAfterPayment ==
    /\ [](\A c \in RequestCids \cup {""}, p \in PrincipalInputs \cup {<<>>},
             fault \in FaultInputs, parseFault \in BOOLEAN :
             LET r == authorizeResult(c, p, fault, parseFault) IN
             /\ \A i \in DOMAIN r.calls :
                   r.calls[i].fn = "issueRetrievalToken" =>
                       i > 1 /\ r.calls[1] = Call("verifyPayment", TRUE)
             /\ r.status = 200 => Invoked(r.calls, "issueRetrievalToken")
             /\ (c # "" /\ p # <<>> /\ ~verifyPayment(c, p, fault).value) =>
                   r.status = 402 /\ ~Invoked(r.calls, "issueRetrievalToken")
             /\ (c = "" \/ p = <<>>) => r.status = 400 /\ r.calls = <<>>)
    /\ [][issued' # issued =>
             /\ response' = Response("authorize", response'.pieceCid, 200,
                                     <<Call("verifyPayment", TRUE),
                                       Call("issueRetrievalToken", TRUE)>>)
             /\ \E p \in PrincipalInputs : verifyPayment(response'.pieceCid, p, "none").value
             /\ \E t \in issued' \ issued :
                   t.capabilities = <<[with |-> ResourceOf(response'.pieceCid),
                                      can |-> RetrieveAction]>>
       ]_vars

\* requests of all three kinds have been possible: a token was minted for a paid file,
\* and the last request, for a file that is registered but has no payment, got 402
C16_Witness ==
    /\ issued # {}
    /\ response = Response("authorize", "A", 402, <<Call("verifyPayment", FALSE)>>)
    /\ authorizeResult("", AddressString("alice"), "none", FALSE).status = 400

ReportedStored(pieceCid) ==
    /\ getFileIdByCid(pieceCid) # 0
    /\ getFileStatus(getFileIdByCid(pieceCid)).isStored

\* C18: the storage collaborator's download is invoked only for content that the
\* FileLedger reports as Stored: no sequence of register, deposit, authorize and
\* download requests gets a download served, on a token the service minted, for content
\* whose status is Uploaded or Paid.
C18_DownloadOnlyStored ==
    \A t \in issued, c \in RequestCids, downloadFault \in BOOLEAN :
        Invoked(downloadResult(c, <<"Bearer", t>>, downloadFault).calls, "downloadFile") =>
            ReportedStored(c)

C20_OnlyOwner ==
    /\ [](\A s \in Users \ {Owner}, f \in IdInputs, p \in RateInputs :
             /\ confirmStorageResult(s, f) = Unauthorized
             /\ releasePaymentResult(s, f) = Unauthorized
             /\ refundPaymentResult(s, f) = Unauthorized
             /\ emergencyRefundResult(s, f) = Unauthorized
             /\ updateStoragePriceResult(s, p) = Unauthorized)
    /\ [][\A s \in Users \ {Owner}, f \in IdInputs, p \in RateInputs :
             (\/ confirmStorage(s, f)
              \/ releasePayment(s, f)
              \/ refundPayment(s, f)
              \/ emergencyRefund(s, f)
              \/ updateStoragePrice(s, p)) =>
                 UNCHANGED <<files, escrows, balanceOf, pricePerByte>>
       ]_vars

\* a stored file with an open escrow, after a rate update by the owner: the owner's
\* release and emergency refund would succeed, alice's are refused
C20_Witness ==
    \E f \in FileIds :
        /\ releasePaymentResult(Owner, f) = OK
        /\ emergencyRefundResult(Owner, EscrowIdOf(f)) = OK
        /\ updateStoragePriceResult(Owner, 1) = OK
        /\ File(f).status = Stored
        /\ releasePaymentResult("alice", f) = Unauthorized
        /\ emergencyRefundResult("alice", EscrowIdOf(f)) = Unauthorized
        /\ pricePerByte # InitialPricePerByte

\* the two revert reasons the spec calls InvalidInput
InvalidInput == {EmptyCid, ZeroSize}

\* C21: registerFile with an empty content identifier or with size 0 always fails, with
\* InvalidInput ("Empty CID" or "Zero file size") while the registry is not paused, and
\* such a call leaves nextFileId, totalFiles, the cid index, the per-uploader lists and
\* the records unchanged (no step that changes one of these is such a call); so no
\* record ever has an empty identifier or the size 0.
C21_InvalidInputRejected ==
    /\ [](\A s \in Users, c \in CidInputs, n \in SizeInputs, h \in HashInputs :
             (c = "" \/ n = 0) =>
                 /\ registerFileResult(s, c, n, h) # OK
                 /\ ~registryPaused => registerFileResult(s, c, n, h) \in InvalidInput)
    /\ [](\A f \in DOMAIN files : files[f].pieceCid # "" /\ files[f].fileSize > 0)
    /\ [][(\/ <<nextFileId, totalFiles, cidToFileId, userFiles>>' #
                   <<nextFileId, totalFiles, cidToFileId, userFiles>>
            \/ Len(files') # Len(files)) =>
              \A s \in Users, c \in CidInputs, n \in SizeInputs :
                  ~((c = "" \/ n = 0) /\ registerFile(s, c, n, 0))]_vars

\* one file is registered and one identifier is free: a registration of the free
\* identifier is accepted with a size, refused as "Zero file size" without, and a
\* registration without an identifier is refused as "Empty CID"
C21_Witness ==
    /\ totalFiles = 1
    /\ ~registryPaused
    /\ \E c \in CIDs :
          /\ registerFileResult("alice", c, 1, 0) = OK
          /\ registerFileResult("alice", c, 0, 0) = ZeroSize
    /\ registerFileResult("alice", "", 1, 0) = EmptyCid
    /\ registerFileResult("alice", "", 0, 0) = EmptyCid

C23_NeverLocked ==
    \A e \in DOMAIN escrows :
        (/\ Unfinalized(escrows[e])
         /\ now >= escrows[e].lockTime + RefundWindow
         /\ ~escrowPaused) =>
            \/ releasePaymentResult(Owner, escrows[e].fileId) = OK
            \/ refundPaymentResult(Owner, escrows[e].fileId) = OK

\* C24 as stated: each read of the FileLedger fails with "File not found" when it is
\* given an id or a content identifier that has no record.
C24_ReadsFailNotFound ==
    /\ \A f \in IdInputs :
          f \notin DOMAIN files =>
              /\ getFileView(f).reason = RegNotFound
              /\ getFileStatusView(f).reason = RegNotFound
    /\ \A c \in CIDs :
          (\A f \in DOMAIN files : files[f].pieceCid # c) =>
              getFileIdByCidView(c).reason = RegNotFound

\* C24 as amended: getFile and getFileStatus fail with "File not found" exactly for an
\* id that has no record, and otherwise return the record and its (isPaid, isStored);
\* the lookup by content identifier never fails: it returns the id of the record with
\* that identifier, and 0 when there is none; the list by uploader never fails: it
\* returns the ids the uploader registered, the empty list when there are none.  The
\* four are functions of the state: a call of one is no step of the ledger.
C24_Reads ==
    /\ \A f \in IdInputs :
          /\ (getFileView(f).reason = RegNotFound) <=> f \notin DOMAIN files
          /\ (getFileStatusView(f).reason = RegNotFound) <=> f \notin DOMAIN files
          /\ f \in DOMAIN files =>
                /\ getFileView(f) = View(files[f])
                /\ getFileStatusView(f).reason = OK
                /\ getFileStatusView(f).value.isPaid <=> files[f].status # Uploaded
                /\ getFileStatusView(f).value.isStored <=>
                       files[f].status \in {Stored, Retrieved}
    /\ \A c \in CidInputs :
          /\ getFileIdByCidView(c).reason = OK
          /\ (getFileIdByCidView(c).value = 0) <=>
                 (\A f \in DOMAIN files : files[f].pieceCid # c)
          /\ \A f \in DOMAIN files :
                 files[f].pieceCid = c => getFileIdByCidView(c).value = f
    /\ \A u \in Accounts \cup {ZeroAddress} :
          /\ getUserFilesView(u).reason = OK
          /\ \A f \in IdInputs :
                 (\E i \in DOMAIN getUserFilesView(u).value :
                      getUserFilesView(u).value[i] = f)
                 <=> (f \in DOMAIN files /\ files[f].uploader = u)

\* one file is registered by alice and stored: its reads return it; the id 2 and the
\* other identifier have no record: getFile and getFileStatus fail for the id, the
\* lookup of the identifier returns 0 and the owner's list is empty
C24_Witness ==
    /\ Len(files) = 1
    /\ files[1].status = Stored
    /\ getFileView(1).reason = OK
    /\ getFileStatusView(1).value = [isPaid |-> TRUE, isStored |-> TRUE]
    /\ getFileView(2).reason = RegNotFound
    /\ getFileStatusView(2).reason = RegNotFound
    /\ getFileIdByCidView(files[1].pieceCid) = View(1)
    /\ \E c \in CIDs : getFileIdByCidView(c) = View(0)
    /\ getUserFilesView("alice") = View(<<1>>)
    /\ getUserFilesView(Owner) = View(<<>>)

\* C25 as stated (read for an escrow contract that is not paused): after a successful
\* releasePayment on a file, a second releasePayment fails as already finalized, and a
\* refundPayment sent before the refund window has elapsed fails with "Too early for
\* refund".
C25_RefundAfterReleaseTooEarly ==
    \A f \in FileIds :
        (/\ EscrowOf(f).released
         /\ ~escrowPaused
         /\ now < EscrowOf(f).lockTime + RefundWindow) =>
            /\ releasePaymentResult(Owner, f) \in AlreadyFinalized
            /\ refundPaymentResult(Owner, f) = TooEarly

\* C25 as amended: after a successful releasePayment on a file, a second releasePayment
\* and a refundPayment both fail with "Already released", before the refund window has
\* elapsed and after it: the finalization checks come before the timing check.
C25_AfterRelease ==
    \A f \in FileIds :
        (EscrowOf(f).released /\ ~escrowPaused) =>
            /\ releasePaymentResult(Owner, f) = AlreadyReleased
            /\ refundPaymentResult(Owner, f) = AlreadyReleased

\* a file was registered, paid, stored and released within the refund window: the
\* treasury has the amount, and release and refund are both refused as already released
C25_Witness ==
    \E f \in FileIds :
        /\ File(f).status = Stored
        /\ EscrowOf(f).released
        /\ payouts[EscrowIdOf(f)] = [released |-> 1, refunded |-> 0]
        /\ balanceOf[treasury] = InitialFunds + EscrowOf(f).amount
        /\ now < EscrowOf(f).lockTime + RefundWindow
        /\ ~escrowPaused
        /\ releasePaymentResult(Owner, f) = AlreadyReleased
        /\ refundPaymentResult(Owner, f) = AlreadyReleased

\* C26: the two ledgers can diverge after a refund.  For a file that is Paid with an
\* unfinalized escrow (the escrow contract not paused and holding the amount),
\* refundPayment fails with "Too early for refund" before lockTime + 7 days and succeeds
\* from then on; the refund leaves the file Paid, so confirmStorage is still accepted
\* afterwards; and once an escrow is refunded it stays refunded, nothing is ever paid
\* to the provider for it, and releasePayment for its file fails, also when the file
\* is Stored.
C26_DivergeAfterRefund ==
    /\ [](\A f \in FileIds :
             /\ (/\ File(f).status = Paid /\ EscrowIdOf(f) # 0 /\ Unfinalized(EscrowOf(f))
                 /\ ~escrowPaused /\ balanceOf[EscrowAddress] >= EscrowOf(f).amount) =>
                    IF now < EscrowOf(f).lockTime + RefundWindow
                    THEN refundPaymentResult(Owner, f) = TooEarly
                    ELSE refundPaymentResult(Owner, f) = OK
             /\ (File(f).status = Paid /\ EscrowOf(f).refunded /\ ~registryPaused) =>
                    confirmStorageResult(Owner, f) = OK
             /\ EscrowOf(f).refunded =>
                    /\ \A s \in Users : releasePaymentResult(s, f) # OK
                    /\ ~escrowPaused => releasePaymentResult(Owner, f) = AlreadyRefunded
                    /\ payouts[EscrowIdOf(f)].released = 0)
    /\ [][\A e \in DOMAIN escrows :
             /\ escrows[e].refunded => escrows'[e].refunded
             /\ (~escrows[e].refunded /\ escrows'[e].refunded) =>
                    files'[escrows[e].fileId].status = files[escrows[e].fileId].status]_vars

\* register and deposit, no confirmation; 7 days later the escrow is refunded (the
\* payer holds the initial funds again) and then the storage is confirmed: the file
\* is Stored, its escrow is refunded, and a release is refused
C26_Witness ==
    \E f \in FileIds :
        /\ File(f).status = Stored
        /\ EscrowOf(f).refunded
        /\ File(f).paidTime = EscrowOf(f).lockTime
        /\ File(f).storedTime = EscrowOf(f).lockTime + RefundWindow
        /\ balanceOf[EscrowOf(f).payer] = InitialFunds
        /\ balanceOf[EscrowAddress] = 0
        /\ ~escrowPaused
        /\ releasePaymentResult(Owner, f) = AlreadyRefunded

\* C27: the signer key pair is generated at most once per process lifetime: after any
\* interleaving of init, issueRetrievalToken and verifyRetrievalAccess calls, calls
\* that start before the signer is set included, every token issued is signed with
\* the one key that the service holds afterwards.
C27_OneSigner ==
    (\A c \in CallIds : inflight[c].pc = "idle") =>
        /\ generated <= 1
        /\ \A t \in issued : t.signature = ucanSigner

\* C28: while the FileRegistry is paused, registerFile, linkPayment, confirmStorage and
\* markRetrieved fail (with EnforcedPause, confirmStorage from another sender than the
\* owner as unauthorized) and no step changes a record, the cid index, a per-uploader
\* list or a counter; while it is not paused each of them succeeds exactly under its
\* own guards, as before the pause; and a step that pauses or unpauses changes nothing
\* but the pause flag.
C28_PausedRegistry ==
    /\ [](registryPaused =>
             /\ \A s \in Users, c \in CidInputs, n \in SizeInputs, h \in HashInputs :
                    registerFileResult(s, c, n, h) = EnforcedPause
             /\ \A f \in IdInputs :
                    /\ linkPaymentResult(f) = EnforcedPause
                    /\ markRetrievedResult(f) = EnforcedPause
                    /\ confirmStorageResult(Owner, f) = EnforcedPause
                    /\ \A s \in Users : confirmStorageResult(s, f) # OK)
    /\ [](~registryPaused =>
             /\ \A s \in Users, c \in CIDs, n \in SizeInputs, h \in HashInputs :
                    (registerFileResult(s, c, n, h) = OK) <=>
                        (n # 0 /\ cidToFileId[c] = 0 /\ n * pricePerByte <= UintMax)
             /\ \A f \in IdInputs :
                    /\ (linkPaymentResult(f) = OK) <=>
                           (f \in DOMAIN files /\ files[f].status = Uploaded)
                    /\ (confirmStorageResult(Owner, f) = OK) <=>
                           (f \in DOMAIN files /\ files[f].status = Paid)
                    /\ (markRetrievedResult(f) = OK) <=>
                           (f \in DOMAIN files /\ files[f].status = Stored))
    /\ [][/\ registryPaused =>
                UNCHANGED <<files, cidToFileId, userFiles, nextFileId, totalFiles>>
          /\ registryPaused' # registryPaused =>
                UNCHANGED <<files, cidToFileId, userFiles, nextFileId, totalFiles,
                            pricePerByte>>]_vars

\* the registry is paused with one file Paid and one identifier free: the confirmation
\* of the file and the registration of the free identifier, which their own guards
\* allow, are refused with EnforcedPause
C28_Witness ==
    /\ registryPaused
    /\ \E f \in DOMAIN files :
          /\ files[f].status = Paid
          /\ confirmStorageResult(Owner, f) = EnforcedPause
          /\ confirmStorageResult_anyStatus("alice", f) = Unauthorized
    /\ \E c \in CIDs :
          /\ cidToFileId[c] = 0
          /\ registerFileResult("alice", c, 1, 0) = EnforcedPause
    /\ \A f \in IdInputs :
          linkPaymentResult(f) = EnforcedPause /\ markRetrievedResult(f) = EnforcedPause

\* the ids of the records that `user' registered, in increasing order
RegisteredBy(user) ==
    SelectSeq([f \in 1..Len(files) |-> f], LAMBDA f : files[f].uploader = user)

\* C29: file ids are assigned from 1 without gaps and records are never deleted: in
\* every state nextFileId = totalFiles + 1, exactly the ids 1..totalFiles have a record,
\* the id 0 has none and is the value of the cid index exactly for the identifiers
\* without a record, and the list of each uploader holds exactly the ids that uploader
\* registered, in the order of registration; a step either keeps the records' ids or
\* adds the one id nextFileId.
C29_IdsDense ==
    /\ [](/\ nextFileId = totalFiles + 1
          /\ DOMAIN files = 1..totalFiles
          /\ \A f \in IdInputs : File(f).exists <=> f \in 1..totalFiles
          /\ ~File(0).exists
          /\ \A c \in CIDs :
                /\ cidToFileId[c] \in 0..totalFiles
                /\ (cidToFileId[c] = 0) <=> (\A f \in DOMAIN files : files[f].pieceCid # c)
                /\ cidToFileId[c] # 0 => files[cidToFileId[c]].pieceCid = c
          /\ \A u \in Accounts : userFiles[u] = RegisteredBy(u))
    /\ [][/\ nextFileId' \in {nextFileId, nextFileId + 1}
          /\ DOMAIN files \subseteq DOMAIN files'
          /\ \A f \in DOMAIN files :
                /\ files'[f].exists
                /\ files'[f].pieceCid = files[f].pieceCid
                /\ files'[f].uploader = files[f].uploader
          /\ \A u \in Accounts :
                /\ Len(userFiles'[u]) >= Len(userFiles[u])
                /\ SubSeq(userFiles'[u], 1, Len(userFiles[u])) = userFiles[u]]_vars

\* one uploader registered both identifiers, the first before the second, and one of
\* the files has moved on in its life
C29_Witness ==
    /\ nextFileId = 3
    /\ totalFiles = 2
    /\ \E u \in Users : userFiles[u] = <<1, 2>>
    /\ \A c \in CIDs : cidToFileId[c] # 0
    /\ files[1].uploadTime <= files[2].uploadTime
    /\ \E f \in DOMAIN files : files[f].status = Stored

\* the three revert reasons the spec calls InvalidState
InvalidState == {InvalidStatus, PaymentRequired, NotStoredYet}

\* C30: each transition is guarded by one equality check on the current status.  With
\* the registry not paused, linkPayment succeeds exactly from Uploaded, confirmStorage
\* (by the owner) exactly from Paid and markRetrieved exactly from Stored; on an id
\* without a record each fails with "File not found", on any other status with its
\* InvalidState reason; a failing call changes no record; a record changes only by one
\* of the three transitions, which stamp paidTime (linkPayment) and storedTime
\* (confirmStorage) and leave every other field; and a Retrieved record never changes.
C30_TransitionGuards ==
    /\ [](~registryPaused =>
             \A f \in IdInputs :
                 /\ linkPaymentResult(f) =
                        IF f \notin DOMAIN files THEN RegNotFound
                        ELSE IF files[f].status = Uploaded THEN OK ELSE InvalidStatus
                 /\ confirmStorageResult(Owner, f) =
                        IF f \notin DOMAIN files THEN RegNotFound
                        ELSE IF files[f].status = Paid THEN OK ELSE PaymentRequired
                 /\ markRetrievedResult(f) =
                        IF f \notin DOMAIN files THEN RegNotFound
                        ELSE IF files[f].status = Stored THEN OK ELSE NotStoredYet)
    /\ [](\A f \in DOMAIN files :
             files[f].status = Retrieved =>
                 /\ linkPaymentResult(f) \in InvalidState \cup {EnforcedPause}
                 /\ confirmStorageResult(Owner, f) \in InvalidState \cup {EnforcedPause}
                 /\ markRetrievedResult(f) \in InvalidState \cup {EnforcedPause})
    /\ [][\A f \in DOMAIN files :
             /\ files[f].status = Retrieved => files'[f] = files[f]
             /\ files'[f] # files[f] =>
                    \/ /\ files[f].status = Uploaded
                       /\ files'[f] = [files[f] EXCEPT !.status = Paid, !.paidTime = now]
                    \/ /\ files[f].status = Paid
                       /\ files'[f] = [files[f] EXCEPT !.status = Stored, !.storedTime = now]
                    \/ /\ files[f].status = Stored
                       /\ files'[f] = [files[f] EXCEPT !.status = Retrieved]]_vars
    /\ [][files' # files =>
             \A s \in Users, f \in IdInputs :
                 /\ ~(linkPaymentResult(f) # OK /\ linkPayment(s, f, s, 0))
                 /\ ~(confirmStorageResult(s, f) # OK /\ confirmStorage(s, f))
                 /\ ~(markRetrievedResult(f) # OK /\ markRetrieved(s, f))]_vars

\* one file is Retrieved, paid in a later block than it was registered in and stored
\* in the block of its payment, and refuses all three transitions;
\* the other is Paid: its confirmation is accepted, a second payment link and a
\* retrieval mark are refused, and the id 0 is not found
C30_Witness ==
    /\ ~registryPaused
    /\ \E f, g \in DOMAIN files :
          /\ files[f].status = Retrieved
          /\ files[f].uploadTime < files[f].paidTime
          /\ files[f].storedTime = files[f].paidTime
          /\ linkPaymentResult(f) = InvalidStatus
          /\ confirmStorageResult(Owner, f) = PaymentRequired
          /\ markRetrievedResult(f) = NotStoredYet
          /\ files[g].status = Paid
          /\ confirmStorageResult(Owner, g) = OK
          /\ linkPaymentResult(g) = InvalidStatus
          /\ markRetrievedResult(g) = NotStoredYet
    /\ linkPaymentResult(0) = RegNotFound
    /\ confirmStorageResult(Owner, 0) = RegNotFound
    /\ markRetrievedResult(0) = RegNotFound

\* the sum of amount over the escrow records with the ids in S
RECURSIVE SumAmount(_)
SumAmount(S) ==
    IF S = {} THEN 0
    ELSE LET e == CHOOSE x \in S : TRUE IN escrows[e].amount + SumAmount(S \ {e})

\* C31: the aggregate totals stay consistent with the records: in every state
\* totalEscrowed is the sum of amount over all escrow records ever created,
\* totalReleased is the sum of amount over the records with released = true, and
\* totalReleased <= totalEscrowed, so getStats never fails in its subtraction; a step
\* changes a total only by the amount of the one record it creates or releases.
C31_TotalsConsistent ==
    /\ [](/\ totalEscrowed = SumAmount(DOMAIN escrows)
          /\ totalReleased = SumAmount({e \in DOMAIN escrows : escrows[e].released})
          /\ totalReleased <= totalEscrowed
          /\ getStats.reason = OK
          /\ getStats.value.totalPendingAmount >= 0)
    /\ [][/\ totalEscrowed' # totalEscrowed =>
                /\ Len(escrows') = Len(escrows) + 1
                /\ totalEscrowed' = totalEscrowed + escrows'[Len(escrows')].amount
          /\ totalReleased' # totalReleased =>
                \E e \in DOMAIN escrows :
                    /\ ~escrows[e].released /\ escrows'[e].released
                    /\ totalReleased' = totalReleased + escrows[e].amount]_vars

\* two escrows were created, one was released and the other refunded: the totals count
\* both as escrowed and the first as released
C31_Witness ==
    \E e1, e2 \in DOMAIN escrows :
        /\ escrows[e1].released
        /\ escrows[e2].refunded
        /\ totalEscrowed = escrows[e1].amount + escrows[e2].amount
        /\ totalReleased = escrows[e1].amount
        /\ getStats.value.totalPendingAmount = escrows[e2].amount

\* C32: re-submitting a deposit is idempotent-safe: when the payer sends depositForFile
\* again, with the same amount, for a file whose deposit has committed, the later
\* submission fails with "File already paid" (read for an escrow contract that is not
\* paused), no second escrow record is created for the file and no funds move again.
C32_ResubmitAlreadyPaid ==
    /\ [](\A f \in FileIds :
             (EscrowIdOf(f) # 0 /\ ~escrowPaused) =>
                 depositForFileResult(EscrowOf(f).payer, f, EscrowOf(f).amount) = AlreadyPaid)
    /\ [][\A f \in FileIds :
             EscrowIdOf(f) # 0 =>
                 /\ \A a \in AmountInputs :
                        depositForFile(EscrowOf(f).payer, f, a) => UNCHANGED <<escrows, balanceOf>>
                 /\ \A e \in DOMAIN escrows' : escrows'[e].fileId = f => e = EscrowIdOf(f)]_vars

\* C33: verifyRetrievalAccess never throws: for every token text, malformed ones
\* included, every content identifier and also when init() fails, it returns a
\* boolean; a malformed token yields false; and every refusal is the same plain false,
\* whichever step refused (init, parsing, the capability match).
C33_VerifyNeverThrows ==
    \A t \in PresentedTokens, c \in RequestCids \cup {""}, initFault \in BOOLEAN :
        LET r == verifyRetrievalAccessCatch(t, c, initFault) IN
        /\ ~r.threw
        /\ r.value \in BOOLEAN
        /\ ~t.wellFormed => r = Returned(FALSE)
        /\ initFault => r = Returned(FALSE)
        /\ ~r.value => r = Returned(FALSE)
        /\ ~initFault => r.value = verifyRetrievalAccess(t, c)

\* a download with a token text that cannot be parsed was answered 403 after the
\* verifier returned false, where the parser had thrown; a minted token is accepted for
\* its file and refused, with the same false, for another
C33_Witness ==
    /\ response.route = "download"
    /\ response.status = 403
    /\ response.calls = <<Call("verifyRetrievalAccess", FALSE)>>
    /\ verifyRetrievalAccessTry(Malformed, response.pieceCid, FALSE).threw
    /\ verifyRetrievalAccessCatch(Malformed, response.pieceCid, FALSE) = Returned(FALSE)
    /\ \E t \in issued :
          /\ verifyRetrievalAccessCatch(t, "a", FALSE) = Returned(TRUE)
          /\ verifyRetrievalAccessCatch(t, "b", FALSE) = Returned(FALSE)
          /\ verifyRetrievalAccessCatch(t, "a", TRUE) = Returned(FALSE)

\* the total amount of the escrow records that are neither released nor refunded
Locked == SumAmount({e \in DOMAIN escrows : Unfinalized(escrows[e])})

\* the total amount of the releases that were paid to the escrow contract's own address
PaidToSelf ==
    SumAmount({e \in DOMAIN escrows :
                  escrows[e].released /\ escrows[e].provider = EscrowAddress})

C35_PendingEqualsLocked ==
    /\ getStats.reason = OK
    /\ getStats.value.totalPendingAmount = Locked

\* C36: payout destination and amount are fixed at deposit time.  A new escrow record
\* has the caller of depositForFile as its payer, the treasury of that moment as its
\* provider and the deposited amount, which moved from the caller to the contract; no
\* later step changes the file, payer, provider, amount or lock time of a record; a
\* release moves exactly the locked amount from the contract to the recorded provider
\* and a refund exactly the locked amount to the recorded payer; and updateTreasury
\* changes no escrow record and no balance.
C36_PayoutFixedAtDeposit ==
    [][/\ \A e \in (DOMAIN escrows') \ (DOMAIN escrows) :
             /\ escrows'[e].provider = treasury
             /\ escrows'[e].lockTime = now
             /\ Unfinalized(escrows'[e])
             /\ \E s \in Users, f \in FileIds, a \in AmountInputs :
                    /\ depositForFile(s, f, a)
                    /\ escrows'[e].payer = s /\ escrows'[e].fileId = f
                    /\ escrows'[e].amount = a
                    /\ balanceOf' = Transfer(balanceOf, s, EscrowAddress, a)
       /\ \A e \in DOMAIN escrows :
             /\ escrows'[e].fileId = escrows[e].fileId
             /\ escrows'[e].payer = escrows[e].payer
             /\ escrows'[e].provider = escrows[e].provider
             /\ escrows'[e].amount = escrows[e].amount
             /\ escrows'[e].lockTime = escrows[e].lockTime
             /\ (~escrows[e].released /\ escrows'[e].released) =>
                    balanceOf' = Transfer(balanceOf, EscrowAddress, escrows[e].provider,
                                          escrows[e].amount)
             /\ (~escrows[e].refunded /\ escrows'[e].refunded) =>
                    balanceOf' = Transfer(balanceOf, EscrowAddress, escrows[e].payer,
                                          escrows[e].amount)
       /\ treasury' # treasury => UNCHANGED <<escrows, balanceOf>>
       /\ (escrows' # escrows \/ balanceOf' # balanceOf) =>
             \A s \in Users, t \in TreasuryInputs : ~updateTreasury(s, t)]_vars

\* alice paid while the owner was the treasury, the treasury was changed to alice, and
\* then the escrow was released: the owner, the provider recorded at the deposit, has
\* the amount, the new treasury has nothing of it; and an escrow created after the
\* change has the new treasury as its provider
C36_Witness ==
    \E e1, e2 \in DOMAIN escrows :
        /\ escrows[e1].released
        /\ escrows[e1].payer = "alice"
        /\ escrows[e1].provider = Owner
        /\ treasury = "alice"
        /\ escrows[e2].provider = "alice"
        /\ Unfinalized(escrows[e2])
        /\ balanceOf[Owner] = InitialFunds + escrows[e1].amount
                                  - (IF escrows[e2].payer = Owner THEN escrows[e2].amount ELSE 0)

\* the positions of a call in the calls of the upload in progress
CallsOf(name) == {i \in DOMAIN upload.calls : upload.calls[i] = name}

\* what uploadFile returns to its caller
UploadResult(u) ==
    [fileId |-> u.fileId, pieceCid |-> u.pieceCid, size |-> u.size,
     storagePrice |-> u.storagePrice]

\* C37: in uploadFile the ledger operations of one file are submitted in the order
\* registerFile, depositPayment, confirmStorage, each at most once and each only after
\* the one before it has committed: depositPayment only for a file that registerFile
\* has put on the ledger, confirmStorage only for a file whose deposit has created an
\* escrow; when registerFile or depositPayment fails the run ends without a
\* confirmStorage; and the confirmStorage of the timer, whether it succeeds or fails,
\* ends the run without a failure and without a change of the result returned.
C37_UploadOrder ==
    /\ [](/\ \A name \in {"registerFile", "depositPayment", "confirmStorage"} :
                Cardinality(CallsOf(name)) <= 1
          /\ \A i \in CallsOf("depositPayment") :
                /\ \E j \in CallsOf("registerFile") : j < i
                /\ upload.fileId # 0
                /\ File(upload.fileId).pieceCid = upload.pieceCid
          /\ \A i \in CallsOf("confirmStorage") :
                /\ \E j \in CallsOf("depositPayment") : j < i
                /\ EscrowIdOf(upload.fileId) # 0
                /\ upload.pc = "done"
          /\ upload.pc = "failed" => CallsOf("confirmStorage") = {}
          /\ upload.pc = "scheduled" =>
                /\ CallsOf("depositPayment") # {}
                /\ EscrowOf(upload.fileId).payer = Signer)
    /\ [][/\ (upload.pc = "priced" /\ upload' # upload) =>
                /\ upload'.calls = Append(upload.calls, "registerFile")
                /\ upload'.pc = IF Len(files') > Len(files) THEN "registered" ELSE "failed"
          /\ (upload.pc = "registered" /\ upload' # upload) =>
                /\ upload'.calls = Append(upload.calls, "depositPayment")
                /\ upload'.pc = IF Len(escrows') > Len(escrows) THEN "scheduled" ELSE "failed"
          /\ (upload.pc = "scheduled" /\ upload' # upload) =>
                /\ upload'.calls = Append(upload.calls, "confirmStorage")
                /\ upload'.pc = "done"
                /\ UploadResult(upload') = UploadResult(upload)
                /\ confirmStorageResult(Signer, upload.fileId) # OK => files' = files
          /\ (upload.pc \in {"failed", "done"} /\ upload' # upload) =>
                CallsOf("confirmStorage")' = {}]_vars

\* an upload registered its file and paid for it, and the confirmation of the timer
\* failed (the registry was paused by then): the run is done, with its result, and the
\* file is still Paid
C37_Witness ==
    /\ upload.pc = "done"
    /\ upload.calls = <<"calculatePieceCID", "getStoragePrice", "registerFile",
                        "depositPayment", "confirmStorage">>
    /\ UploadResult(upload).fileId \in DOMAIN files
    /\ File(upload.fileId).status = Paid
    /\ EscrowOf(upload.fileId).amount = upload.storagePrice
    /\ registryPaused

\* the escrow of the file registered under a content identifier (the zero record when
\* there is no such file or it has no escrow)
EscrowOfCid(pieceCid) ==
    IF getFileIdByCid(pieceCid) = 0 THEN NoEscrow ELSE EscrowOf(getFileIdByCid(pieceCid))

\* C38: a refund revokes future authorization.  While the escrow of a file is refunded
\* - and it stays refunded for ever - every authorize request for the file's content
\* identifier, for every principal, the payer included, and with or without a ledger
\* fault, is answered 402 without a call of issueRetrievalToken, and no step mints a
\* token for it; an escrow that is released and not refunded keeps authorizing its
\* payer: the request is answered 200 with a token (when the ledger answers and the
\* token can be minted).
C38_RefundRevokes ==
    /\ [](\A c \in RequestCids :
             /\ EscrowOfCid(c).refunded =>
                   \A p \in PrincipalInputs, fault \in FaultInputs, parseFault \in BOOLEAN :
                       LET r == authorizeResult(c, p, fault, parseFault) IN
                       /\ r.status = 402
                       /\ r.calls = <<Call("verifyPayment", FALSE)>>
             /\ (EscrowOfCid(c).released /\ ~EscrowOfCid(c).refunded) =>
                   \A p \in PrincipalInputs :
                       SameIgnoringCase(AddressString(EscrowOfCid(c).payer), p) =>
                           /\ verifyPayment(c, p, "none").value
                           /\ authorizeResult(c, p, "none", FALSE).status = 200)
    /\ [][/\ escrows' # escrows =>
                \A e \in DOMAIN escrows : escrows[e].refunded => escrows'[e].refunded
          /\ issued' # issued =>
                \A c \in RequestCids :
                    EscrowOfCid(c).refunded =>
                        \A t \in issued' \ issued : ~CarriesRetrieve(t, c)]_vars

\* alice paid for the file and was given a token; then the escrow was refunded, and her
\* next authorize request was answered 402: no request for the file is authorized any
\* more
C38_Witness ==
    /\ EscrowOfCid("a").refunded
    /\ EscrowOfCid("a").payer = "alice"
    /\ \E t \in issued : CarriesRetrieve(t, "a")
    /\ response = Response("authorize", "a", 402, <<Call("verifyPayment", FALSE)>>)
    /\ authorizeResult("a", AddressString("alice"), "none", FALSE).status = 402
    /\ ~verifyPayment("a", AddressString("alice"), "none").value
====
